---- MODULE Spec2Model ----
(***************************************************************************)
(* mytube-backend: the NIP-98 request authenticator with its challenge     *)
(* store (src/unnamed/part_003 = src/nip98.ts, src/src/server.ts) and the  *)
(* entitlement resolver / purchase-webhook reconcilers                     *)
(* (src/unnamed/part_002 = src/subs.ts).                                   *)
(*                                                                         *)
(* Node runs one callback at a time: code between two awaits is one atomic *)
(* step, and every await is a point where other callbacks may run.  Each   *)
(* action below is one such run-to-the-next-await piece of a handler.      *)
(***************************************************************************)
EXTENDS Integers, Sequences, FiniteSets, TLC

(* ------------------------------ bounds -------------------------------- *)

\* challenges issued in one behaviour
MaxTokens == 2
\* requests in flight at the same time
MaxReq == 2
\* instants observed after the first challenge reaches its expiry second
MaxSkew == 1
\* getEntitlementForNpub calls in progress at the same time
MaxResolves == 2
\* webhook invocations in progress at the same time
MaxHooks == 2
\* webhook requests received in one behaviour
MaxDeliveries == 2
\* getEntitlementForNpub calls made in one behaviour
MaxCalls == 3
\* trial periods the clock of the subscription store runs through
MaxPeriods == 2
\* route handlers in progress at once
MaxRoutes == 1
\* presign-upload requests that reach the resolver
MaxUploads == 2

(* ------------------------- program constants -------------------------- *)

\* env.nip98ChallengeTtlSeconds, default 300
nip98ChallengeTtlSeconds == 300
\* env.freeTrial.days, default 30
freeTrialDays == 30

AUTH_PREFIX == "Nostr "

(* ---------------------------- state ----------------------------------- *)

VARIABLES
  challenges,   \* ChallengeStore: token -> [exp]            (server.ts:33)
  clock,        \* Math.floor(Date.now() / 1000)
  issued,       \* history: every token ever issued -> its exp
  verified,     \* history: token -> number of verifications that succeeded with it
  reqs,         \* request slot -> the request being handled and how far it got
  freeTrialEnabled, \* env.freeTrial.enabled
  googleAuth,   \* subs.ts googleAuth: "null" or "jwt"
  nowMs,        \* Date.now(), in minutes
  users,        \* table User: the npubs that have a row
  entitlements, \* table Entitlement: a set of rows
  applePurchases,  \* table ApplePurchase: originalTxId -> row
  googlePurchases, \* table GooglePurchase: purchaseToken -> row
  resolves,     \* getEntitlementForNpub calls in progress
  hooks,        \* webhook invocations in progress
  delivered,    \* history: webhook requests received so far
  calls,        \* history: getEntitlementForNpub calls made so far
  uploads,      \* table Upload: a set of rows
  usage,        \* table Usage: npub -> storedBytes
  routes        \* POST /presign/upload and /presign/download handlers in progress

authVars == <<challenges, clock, issued, verified, reqs>>
dbVars == <<users, entitlements, applePurchases, googlePurchases>>
routeVars == <<uploads, usage, routes>>
subsVars == <<freeTrialEnabled, googleAuth, nowMs, users, entitlements, applePurchases,
              googlePurchases, resolves, hooks, delivered, calls, routeVars>>
vars == <<challenges, clock, issued, verified, reqs, freeTrialEnabled, googleAuth, nowMs,
          users, entitlements, applePurchases, googlePurchases, resolves, hooks, delivered,
          calls, uploads, usage, routes>>

(* --------------------------- input domains ---------------------------- *)

Tokens == 1 .. MaxTokens
Slots == 1 .. MaxReq

\* The seconds at which something is observed: server start, and the seconds
\* around the expiry of a challenge issued at start.
Instants == {0} \cup { nip98ChallengeTtlSeconds + k : k \in 0 .. MaxSkew }

Keys == {"pkA", "pkB"}

\* A url is a sequence of pieces: path segments, then possibly "?" and a query.
Undefined == << >>
EntitlementUrl == << "/entitlement" >>
PresignUploadUrl == << "/presign", "/upload" >>
PresignDownloadUrl == << "/presign", "/download" >>
ChallengeUrl == << "/auth", "/challenge" >>
AppstoreUrl == << "/webhooks", "/appstore" >>

\* The bodies Fastify hands to the hook: nothing, a text/plain string, or the
\* object parsed from application/json (two texts that parse to the same object).
NoBody == [kind |-> "none", text |-> ""]
Bodies == { NoBody,
            [kind |-> "string", text |-> "clip"],
            [kind |-> "json", text |-> "{\"filename\": \"clip.mp4\"}"] }

\* content of the signed event, a query-string map.  A parameter that is missing
\* or empty is "" (both are falsy in the code); challenge 0 is "no challenge".
Contents == [ challenge : 0 .. MaxTokens,
              method    : {"", "get", "POST"},
              url       : {Undefined, EntitlementUrl, EntitlementUrl \o << "?", "v=1" >>,
                           PresignUploadUrl},
              body      : {"", "e3b0c44298fc", "57cb3c6b45d4"} ]

Events == [ pubkey : Keys, signedBy : Keys, content : Contents ]

NoEvent == [ pubkey |-> "pkA", signedBy |-> "pkB",
             content |-> [challenge |-> 0, method |-> "", url |-> Undefined, body |-> ""] ]

\* The Authorization header: absent, another scheme, or "Nostr " + base64 of
\* something that is not JSON / the JSON null / a JSON number / an event object.
Headers ==
  { [scheme |-> s, json |-> "garbage", event |-> NoEvent] : s \in {"absent", "Basic "} }
  \cup { [scheme |-> AUTH_PREFIX, json |-> j, event |-> NoEvent] : j \in {"garbage", "null", "number"} }
  \cup { [scheme |-> AUTH_PREFIX, json |-> "object", event |-> e] : e \in Events }

NoHeader == [scheme |-> "absent", json |-> "garbage", event |-> NoEvent]

\* method, matched route template (Undefined when no route matched), raw url, body
Requests ==
  { [method |-> "GET", routeUrl |-> EntitlementUrl, url |-> EntitlementUrl \o << "?", "v=1" >>, body |-> NoBody] }
  \cup { [method |-> "POST", routeUrl |-> PresignUploadUrl, url |-> PresignUploadUrl, body |-> b] : b \in Bodies }
  \cup { [method |-> "GET", routeUrl |-> Undefined, url |-> EntitlementUrl \o << "?", "v=1" >>, body |-> NoBody] }
  \cup { [method |-> "POST", routeUrl |-> r, url |-> r, body |-> NoBody] :
            r \in {PresignDownloadUrl, ChallengeUrl, AppstoreUrl} }

NoRequest == [method |-> "GET", routeUrl |-> Undefined, url |-> Undefined, body |-> NoBody]

(* ------------------- nip98.ts: pure pieces of verifyNip98 -------------- *)

\* String.prototype.toUpperCase on the method strings that occur
ToUpperCase(s) ==
  CASE s = "get" -> "GET"
    [] s = "post" -> "POST"
    [] OTHER -> s

\* url.indexOf('?'): the position of the first "?" piece, 0 when there is none
IndexOfQuery(url) ==
  IF \E i \in 1 .. Len(url) : url[i] = "?"
  THEN CHOOSE i \in 1 .. Len(url) : url[i] = "?" /\ \A j \in 1 .. i - 1 : url[j] # "?"
  ELSE 0

extractPath(url) ==
  IF IndexOfQuery(url) = 0 THEN url ELSE SubSeq(url, 1, IndexOfQuery(url) - 1)

\* req.routeOptions?.url ?? extractPath(req.url ?? '')
ExpectedPath(rq) ==
  IF rq.routeUrl # Undefined THEN rq.routeUrl ELSE extractPath(rq.url)

\* JSON.stringify(JSON.parse(text)) for the json bodies that occur
JsonStringify(text) ==
  CASE text = "{\"filename\": \"clip.mp4\"}" -> "{\"filename\":\"clip.mp4\"}"
    [] OTHER -> text

\* the bytes getRequestBody returns
getRequestBody(rq) ==
  CASE rq.body.kind = "none" -> ""
    [] rq.body.kind = "string" -> rq.body.text
    [] OTHER -> JsonStringify(rq.body.text)

\* createHash('sha256').update(bytes).digest('hex'), first 12 hex digits
Sha256Hex(bytes) ==
  CASE bytes = "" -> "e3b0c44298fc"
    [] bytes = "clip" -> "67905ad3cc2d"
    [] bytes = "{\"filename\":\"clip.mp4\"}" -> "57cb3c6b45d4"
    [] OTHER -> "0f1e2d3c4b5a"

\* verifyEvent: the signature was made with the key the event declares
verifyEvent(event) == event.signedBy = event.pubkey

\* nip19.npubEncode
npubEncode(hexPubKey) ==
  CASE hexPubKey = "pkA" -> "npub1aaa"
    [] OTHER -> "npub1bbb"

Npubs == { npubEncode(k) : k \in Keys }

\* Object.fromEntries(new URLSearchParams(content)) where content is
\* event.content when that is a string and '' otherwise
Params(hdr) ==
  IF hdr.json = "object" THEN hdr.event.content
  ELSE [challenge |-> 0, method |-> "", url |-> Undefined, body |-> ""]

\* variant: a challenge is honoured for one second past its expiry
IsExpiredLate(entry, now) == entry.exp + 1 < now

\* challengeEntry.exp < Math.floor(Date.now() / 1000)
IsExpired(entry, now) == entry.exp < now

\* variant: the method is only compared when it is declared, as the url is
MethodOptional(params, rq) == params.method # "" /\ ToUpperCase(params.method) # rq.method

\* (params['method'] || '').toUpperCase() !== req.method
MethodDiffers(params, rq) == ToUpperCase(params.method) # rq.method

\* variant: the declared url is compared with the raw url of the request
UrlDiffersRaw(params, rq) == params.url # Undefined /\ params.url # rq.url

\* params['url'] && params['url'] !== expectedPath
UrlDiffers(params, rq) == params.url # Undefined /\ params.url # ExpectedPath(rq)

\* bodyHash declared and computed !== bodyHash
BodyHashDiffers(params, rq) ==
  params.body # "" /\ Sha256Hex(getRequestBody(rq)) # params.body

Ret(result, delete, token) == [result |-> result, delete |-> delete, token |-> token]

\* variant: a successful verification leaves the challenge in the store
VerifyTailKeeps(hdr, rq) ==
  LET params == Params(hdr) IN
  IF BodyHashDiffers(params, rq) THEN Ret("null", FALSE, params.challenge)
  ELSE IF ~ verifyEvent(hdr.event) THEN Ret("null", FALSE, params.challenge)
  ELSE Ret(npubEncode(hdr.event.pubkey), FALSE, params.challenge)

\* variant: the challenge is deleted before the signature is verified
VerifyTailBurns(hdr, rq) ==
  LET params == Params(hdr) IN
  IF BodyHashDiffers(params, rq) THEN Ret("null", FALSE, params.challenge)
  ELSE IF ~ verifyEvent(hdr.event) THEN Ret("null", TRUE, params.challenge)
  ELSE Ret(npubEncode(hdr.event.pubkey), TRUE, params.challenge)

\* lines 51-63: what runs after the awaited body (or straight on when no body
\* hash is declared): the hash comparison, verifyEvent, the delete, the identity
VerifyTail(hdr, rq) ==
  LET params == Params(hdr) IN
  IF BodyHashDiffers(params, rq) THEN Ret("null", FALSE, params.challenge)
  ELSE IF ~ verifyEvent(hdr.event) THEN Ret("null", FALSE, params.challenge)
  ELSE Ret(npubEncode(hdr.event.pubkey), TRUE, params.challenge)

\* lines 19-50: from the header to the first await.  result "await" means the
\* function is suspended at `await getRequestBody(req)`.
VerifyHead(hdr, rq, store, now) ==
  LET params == Params(hdr) IN
  IF hdr.scheme # AUTH_PREFIX THEN Ret("null", FALSE, 0)
  ELSE IF hdr.json = "garbage" THEN Ret("null", FALSE, 0)
  ELSE IF hdr.json = "null" THEN Ret("throw", FALSE, 0)
  ELSE IF params.challenge = 0 THEN Ret("null", FALSE, 0)
  ELSE IF params.challenge \notin DOMAIN store THEN Ret("null", FALSE, params.challenge)
  ELSE IF IsExpired(store[params.challenge], now) THEN Ret("null", TRUE, params.challenge)
  ELSE IF MethodDiffers(params, rq) THEN Ret("null", FALSE, params.challenge)
  ELSE IF UrlDiffers(params, rq) THEN Ret("null", FALSE, params.challenge)
  ELSE IF params.body # "" THEN Ret("await", FALSE, params.challenge)
  ELSE VerifyTail(hdr, rq)

\* Map.prototype.delete
MapDelete(store, key) == [ k \in DOMAIN store \ {key} |-> store[k] ]

\* Map.prototype.set
MapSet(store, key, value) == [ k \in DOMAIN store \cup {key} |-> IF k = key THEN value ELSE store[k] ]

\* preHandler: path.startsWith('/auth') || path.startsWith('/webhooks')
SkipsAuth(rq) ==
  LET path == IF rq.routeUrl # Undefined THEN rq.routeUrl ELSE rq.url IN
  Len(path) > 0 /\ path[1] \in {"/auth", "/webhooks"}

(* ------------------------------ actions ------------------------------- *)

\* A request slot: where the request is (idle, received, awaitBody, handler),
\* its Authorization header and request line/body, and what verifyNip98 returned
\* ("none" before it returned, "skipped" when the hook did not call it,
\* "null", "throw" or the npub).
Slot(pc, hdr, rq, result) == [pc |-> pc, hdr |-> hdr, req |-> rq, result |-> result]

IdleSlot == Slot("idle", NoHeader, NoRequest, "none")

\* the credentials and requests of the concurrent specification: one client key,
\* GET /entitlement, a live or unknown challenge, with or without the (correct)
\* hash of the empty body, signed by the declared key or by another one
RaceHeaders ==
  { h \in Headers : /\ h.json = "object"
                    /\ h.event.pubkey = "pkA"
                    /\ h.event.content.challenge # 0
                    /\ h.event.content.method = "get"
                    /\ h.event.content.url = Undefined
                    /\ h.event.content.body \in {"", "e3b0c44298fc"} }

RaceRequests == { rq \in Requests : rq.routeUrl = EntitlementUrl }

AuthInit ==
  /\ challenges = << >>
  /\ clock = 0
  /\ issued = << >>
  /\ verified = [ t \in Tokens |-> 0 ]
  /\ reqs = [ r \in Slots |-> IdleSlot ]

\* POST /auth/challenge.  randomBytes(24) is a token never issued before (a
\* 192-bit collision is not modelled).
IssueChallenge ==
  /\ Cardinality(DOMAIN issued) < MaxTokens
  /\ LET challenge == Cardinality(DOMAIN issued) + 1
         exp == clock + nip98ChallengeTtlSeconds
     IN /\ challenges' = MapSet(challenges, challenge, [exp |-> exp])
        /\ issued' = MapSet(issued, challenge, exp)
  /\ UNCHANGED <<clock, verified, reqs, subsVars>>

\* variant: the callback removes nothing
SweptNothing(store, now) == store

\* variant: the callback also removes the entries that expire this second
SweptEarly(store, now) == [ k \in { t \in DOMAIN store : ~ (store[t].exp <= now) } |-> store[k] ]

\* the entries the setInterval callback keeps
Swept(store, now) == [ k \in { t \in DOMAIN store : ~ (store[t].exp < now) } |-> store[k] ]

\* the setInterval callback
Sweep ==
  /\ challenges' = Swept(challenges, clock)
  /\ UNCHANGED <<clock, issued, verified, reqs, subsVars>>

\* time passes
Tick ==
  /\ \E t \in Instants : t > clock /\ clock' = t
  /\ UNCHANGED <<challenges, issued, verified, reqs, subsVars>>

\* a request has been parsed and routed; its preHandler hook has not run yet
Receive(r, hdrs, rqs) ==
  /\ reqs[r].pc = "idle"
  /\ \E hdr \in hdrs, rq \in rqs :
       reqs' = [reqs EXCEPT ![r] = Slot("received", hdr, rq, "none")]
  /\ UNCHANGED <<challenges, clock, issued, verified, subsVars>>

\* the effect on the store and on the request of a verifyNip98 piece that
\* returned ret
Settle(r, ret) ==
  /\ challenges' = IF ret.delete THEN MapDelete(challenges, ret.token) ELSE challenges
  /\ verified' = IF ret.result \in Npubs
                 THEN [verified EXCEPT ![ret.token] = @ + 1]
                 ELSE verified
  /\ reqs' = [reqs EXCEPT ![r].pc = IF ret.result = "await" THEN "awaitBody" ELSE "handler",
                          ![r].result = IF ret.result = "await" THEN "none" ELSE ret.result]

\* the preHandler hook up to the first await inside verifyNip98
PreHandler(r) ==
  /\ reqs[r].pc = "received"
  /\ IF SkipsAuth(reqs[r].req)
     THEN /\ reqs' = [reqs EXCEPT ![r].pc = "handler", ![r].result = "skipped"]
          /\ UNCHANGED <<challenges, verified>>
     ELSE Settle(r, VerifyHead(reqs[r].hdr, reqs[r].req, challenges, clock))
  /\ UNCHANGED <<clock, issued, subsVars>>

\* verifyNip98 resumed after `await getRequestBody(req)`
ResumeAfterBody(r) ==
  /\ reqs[r].pc = "awaitBody"
  /\ Settle(r, VerifyTail(reqs[r].hdr, reqs[r].req))
  /\ UNCHANGED <<clock, issued, subsVars>>

\* the routes whose handlers start with requireAuth(req)
ProtectedUrls == {EntitlementUrl, PresignUploadUrl, PresignDownloadUrl}

\* requireAuth passes: req.npub was set by the hook
requireAuth(slot) == slot.result \in Npubs

\* the status the hook and requireAuth give the request: 500 when the hook
\* rejected, 404 when no route matched, 401 when requireAuth threw, and 200
\* for "the rest of the handler runs and decides"
ReplyStatus(slot) ==
  IF slot.result = "throw" THEN 500
  ELSE IF slot.req.routeUrl = Undefined THEN 404
  ELSE IF slot.req.routeUrl \in ProtectedUrls /\ ~ requireAuth(slot) THEN 401
  ELSE 200

\* GET /entitlement, lines 73-80: prisma.user.upsert (the first write of a
\* protected handler; the resolver that follows is getEntitlementForNpub below)
HandlerUsers(slot, table) ==
  IF ReplyStatus(slot) = 200 /\ slot.req.routeUrl = EntitlementUrl
  THEN table \cup {slot.result}
  ELSE table

\* the request is answered (by its route handler, or with the hook's error)
Reply(r) ==
  /\ reqs[r].pc = "handler"
  /\ users' = HandlerUsers(reqs[r], users)
  /\ reqs' = [reqs EXCEPT ![r] = IdleSlot]
  /\ UNCHANGED <<challenges, clock, issued, verified, freeTrialEnabled, googleAuth, routeVars, nowMs,
                 entitlements, applePurchases, googlePurchases, resolves, hooks, delivered,
                 calls>>

(* ------------------------- subs.ts: pure pieces ------------------------ *)

\* A productId is a sequence of pieces, so that "contains" can be computed.
TrialProduct == << "trial" >>
ProMonthly == << "com.mytube.", "Pro", ".monthly" >>
BasicYearly == << "com.mytube.", "basic", ".yearly" >>
Products == { ProMonthly, BasicYearly }

\* String.prototype.toLowerCase on the pieces that occur
ToLowerCase(s) ==
  CASE s = "Pro" -> "pro"
    [] s = "PRO" -> "pro"
    [] s = "Ultra" -> "ultra"
    [] s = "ULTRA" -> "ultra"
    [] OTHER -> s

\* productId.toLowerCase().includes(marker)
Includes(productId, marker) == \E i \in 1 .. Len(productId) : ToLowerCase(productId[i]) = marker

\* variant: 'ultra' is looked for before 'pro'
planToQuotaUltraFirst(productId) ==
  IF Includes(productId, "ultra") THEN 500
  ELSE IF Includes(productId, "pro") THEN 200
  ELSE 50

\* the quota in GiB (bytes = GiB * 1024 * 1024 * 1024 do not fit TLC's integers)
planToQuota(productId) ==
  IF Includes(productId, "pro") THEN 200
  ELSE IF Includes(productId, "ultra") THEN 500
  ELSE 50

\* variant: a type the switch does not name gives expired
mapAppleStatusStrict(type) ==
  CASE type \in {"DID_RENEW", "SUBSCRIBED"} -> "active"
    [] type = "GRACE_PERIOD_EXPIRED" -> "paused"
    [] type \in {"DID_FAIL_TO_RENEW", "REFUND", "REFUND_DECLINED", "REFUND_REVERSED",
                 "PRICE_INCREASE", "RENEWAL_EXTENSION", "RENEWAL_EXTENDED",
                 "DID_CHANGE_RENEWAL_STATUS", "DID_CHANGE_RENEWAL_PREF"} -> "canceled"
    [] OTHER -> "expired"

mapAppleStatus(type) ==
  CASE type \in {"DID_RENEW", "SUBSCRIBED"} -> "active"
    [] type = "EXPIRED" -> "expired"
    [] type = "GRACE_PERIOD_EXPIRED" -> "paused"
    [] type \in {"DID_FAIL_TO_RENEW", "REFUND", "REFUND_DECLINED", "REFUND_REVERSED",
                 "PRICE_INCREASE", "RENEWAL_EXTENSION", "RENEWAL_EXTENDED",
                 "DID_CHANGE_RENEWAL_STATUS", "DID_CHANGE_RENEWAL_PREF"} -> "canceled"
    [] OTHER -> "active"

\* variant: the expiry is looked at before the payment state
mapGoogleStatusExpiryFirst(data, now) ==
  IF data.cancelReason # "null" THEN "canceled"
  ELSE IF data.expiryTimeMillis < now THEN "expired"
  ELSE IF data.paymentState = "0" THEN "pending"
  ELSE "active"

\* data: cancelReason and paymentState are "null" when the field is absent;
\* expiryTimeMillis is the (non-empty, so truthy) string the API sends, as a number
mapGoogleStatus(data, now) ==
  IF data.cancelReason # "null" THEN "canceled"
  ELSE IF data.paymentState = "0" THEN "pending"
  ELSE IF data.paymentState \in {"1", "2"} THEN "active"
  ELSE IF data.expiryTimeMillis < now THEN "expired"
  ELSE "active"

\* variant: the trial lasts one day whatever env.freeTrial.days is
durationOfOneDay == 24 * 60

\* env.freeTrial.days * 24 * 60 * 60 * 1000.  Dates are counted in minutes:
\* milliseconds since the epoch do not fit TLC's integers.
durationMs == freeTrialDays * 24 * 60

\* the instants of the subscription store's clock, and the expiry dates providers send
Dates == { k * durationMs : k \in 0 .. MaxPeriods }

\* `${npub}-trial`
TrialId(npub) == npub \o "-trial"

RECURSIVE Concat(_)
Concat(pieces) == IF pieces = << >> THEN "" ELSE Head(pieces) \o Concat(Tail(pieces))

\* the id Prisma generates for a row created by a webhook: one per row
GeneratedId(npub, productId) == "id:" \o npub \o "/" \o Concat(productId)

Row(id, npub, platform, productId, status, expiresAt, originalTxId, purchaseToken) ==
  [ id |-> id, npub |-> npub, platform |-> platform, productId |-> productId,
    status |-> status, expiresAt |-> expiresAt, quotaBytes |-> planToQuota(productId),
    originalTxId |-> originalTxId, purchaseToken |-> purchaseToken ]

\* "no row": what findFirst / findUnique return when nothing matches
NoRow == [ id |-> "", npub |-> "", platform |-> "", productId |-> << >>, status |-> "none",
           expiresAt |-> 0, quotaBytes |-> 0, originalTxId |-> "", purchaseToken |-> "" ]

\* findFirst({ orderBy: { expiresAt: 'desc' } }) over rows: any row with the
\* greatest expiresAt (the store decides between equal ones)
\* variant: orderBy: { expiresAt: 'asc' }
Earliest(rows) == { e \in rows : \A f \in rows : f.expiresAt >= e.expiresAt }

\* orderBy: { expiresAt: 'desc' }, then the first row
Latest(rows) == { e \in rows : \A f \in rows : f.expiresAt <= e.expiresAt }

\* variant: the status filter is left out of the where clause
ActiveRowsAnyStatus(table, npub, now) == { e \in table : e.npub = npub /\ e.expiresAt > now }

\* where: { npub, status: { in: ['active', 'grace'] }, expiresAt: { gt: now } }
ActiveRows(table, npub, now) ==
  { e \in table : e.npub = npub /\ e.status \in {"active", "grace"} /\ e.expiresAt > now }

\* variant: the last lookup leaves out the rows with status active or grace
RowsOfEnded(table, npub) == { e \in table : e.npub = npub /\ e.status \notin {"active", "grace"} }

\* where: { npub }
RowsOf(table, npub) == { e \in table : e.npub = npub }

\* findUnique({ where: { id } })
FindById(table, id) ==
  IF \E e \in table : e.id = id THEN CHOOSE e \in table : e.id = id ELSE NoRow

\* entitlement.update({ where: { id }, data: { status } })
UpdateStatus(table, id, status) ==
  { IF e.id = id THEN [e EXCEPT !.status = status] ELSE e : e \in table }

\* entitlement.create: fails on the primary key, on the unique (npub, productId)
\* index and on the foreign key to User
CanCreate(table, userTable, row) ==
  /\ \A e \in table : e.id # row.id
  /\ \A e \in table : ~ (e.npub = row.npub /\ e.productId = row.productId)
  /\ row.npub \in userTable

\* ensureFreeTrialEntitlement after its findUnique returned `existing`: what it
\* writes and returns.  [table, trial, threw]
\* variant: a trial that is not active is set active whatever its end
ensureFreeTrialReactivates(table, userTable, npub, now, existing) ==
  LET fresh == Row(TrialId(npub), npub, "trial", TrialProduct, "active", now + durationMs, "", "")
  IN
  IF existing = NoRow
  THEN IF CanCreate(table, userTable, fresh)
       THEN [table |-> table \cup {fresh}, trial |-> fresh, threw |-> FALSE]
       ELSE [table |-> table, trial |-> NoRow, threw |-> TRUE]
  ELSE IF existing.expiresAt <= now /\ existing.status # "expired"
  THEN [table |-> UpdateStatus(table, existing.id, "expired"),
        trial |-> FindById(UpdateStatus(table, existing.id, "expired"), existing.id),
        threw |-> FALSE]
  ELSE IF existing.status # "active"
  THEN [table |-> UpdateStatus(table, existing.id, "active"),
        trial |-> FindById(UpdateStatus(table, existing.id, "active"), existing.id),
        threw |-> FALSE]
  ELSE [table |-> table, trial |-> existing, threw |-> FALSE]

\* variant: a trial found past its end is replaced by a fresh one
ensureFreeTrialRenews(table, userTable, npub, now, existing) ==
  LET fresh == Row(TrialId(npub), npub, "trial", TrialProduct, "active", now + durationMs, "", "")
  IN
  IF existing = NoRow
  THEN IF CanCreate(table, userTable, fresh)
       THEN [table |-> table \cup {fresh}, trial |-> fresh, threw |-> FALSE]
       ELSE [table |-> table, trial |-> NoRow, threw |-> TRUE]
  ELSE IF existing.expiresAt <= now
  THEN [table |-> { e \in table : e.id # existing.id } \cup {fresh}, trial |-> fresh, threw |-> FALSE]
  ELSE [table |-> table, trial |-> existing, threw |-> FALSE]

ensureFreeTrialEntitlement(table, userTable, npub, now, existing) ==
  LET fresh == Row(TrialId(npub), npub, "trial", TrialProduct, "active", now + durationMs, "", "")
  IN
  IF existing = NoRow
  THEN IF CanCreate(table, userTable, fresh)
       THEN [table |-> table \cup {fresh}, trial |-> fresh, threw |-> FALSE]
       ELSE [table |-> table, trial |-> NoRow, threw |-> TRUE]
  ELSE IF existing.expiresAt <= now /\ existing.status # "expired"
  THEN [table |-> UpdateStatus(table, existing.id, "expired"),
        trial |-> FindById(UpdateStatus(table, existing.id, "expired"), existing.id),
        threw |-> FALSE]
  ELSE IF existing.expiresAt > now /\ existing.status # "active"
  THEN [table |-> UpdateStatus(table, existing.id, "active"),
        trial |-> FindById(UpdateStatus(table, existing.id, "active"), existing.id),
        threw |-> FALSE]
  ELSE [table |-> table, trial |-> existing, threw |-> FALSE]

\* ensureFreeTrialEntitlement called with nothing in between its findUnique and
\* its write
ensureTrial(table, userTable, npub, now) ==
  ensureFreeTrialEntitlement(table, userTable, npub, now, FindById(table, TrialId(npub)))

\* trial && trial.expiresAt > now && ['active', 'grace'].includes(trial.status)
TrialUsable(trial, now) ==
  trial # NoRow /\ trial.expiresAt > now /\ trial.status \in {"active", "grace"}

\* variant: without the unique index, the upsert creates whenever no row is
\* equal to the one it writes
UpsertEntitlementAppends(table, npub, platform, productId, status, expiresAt, originalTxId, purchaseToken) ==
  table \cup { Row(GeneratedId(npub, productId), npub, platform, productId, status,
                   expiresAt, originalTxId, purchaseToken) }

\* variant: the update branch leaves the status as it was
UpsertEntitlementKeepsStatus(table, npub, platform, productId, status, expiresAt, originalTxId, purchaseToken) ==
  IF \E e \in table : e.npub = npub /\ e.productId = productId
  THEN { IF e.npub = npub /\ e.productId = productId
         THEN [e EXCEPT !.platform = platform, !.expiresAt = expiresAt,
                        !.quotaBytes = planToQuota(productId),
                        !.originalTxId = IF platform = "ios" THEN originalTxId ELSE @,
                        !.purchaseToken = IF platform = "android" THEN purchaseToken ELSE @]
         ELSE e : e \in table }
  ELSE table \cup { Row(GeneratedId(npub, productId), npub, platform, productId, status,
                        expiresAt, originalTxId, purchaseToken) }

\* entitlement.upsert({ where: { npub_productId }, update, create }) of a webhook
UpsertEntitlement(table, npub, platform, productId, status, expiresAt, originalTxId, purchaseToken) ==
  IF \E e \in table : e.npub = npub /\ e.productId = productId
  THEN { IF e.npub = npub /\ e.productId = productId
         THEN [e EXCEPT !.platform = platform, !.status = status, !.expiresAt = expiresAt,
                        !.quotaBytes = planToQuota(productId),
                        !.originalTxId = IF platform = "ios" THEN originalTxId ELSE @,
                        !.purchaseToken = IF platform = "android" THEN purchaseToken ELSE @]
         ELSE e : e \in table }
  ELSE table \cup { Row(GeneratedId(npub, productId), npub, platform, productId, status,
                        expiresAt, originalTxId, purchaseToken) }

\* the npub of the mapping row, "" when there is none
findNpubByOriginalTxIdOrAccountToken(table, originalTxId, appAccountToken) ==
  IF originalTxId \in DOMAIN table THEN table[originalTxId].npub
  ELSE IF appAccountToken # "" /\ \E k \in DOMAIN table : table[k].appAccountToken = appAccountToken
  THEN table[CHOOSE k \in DOMAIN table : table[k].appAccountToken = appAccountToken].npub
  ELSE ""

findNpubByPurchaseToken(table, purchaseToken) ==
  IF purchaseToken \in DOMAIN table THEN table[purchaseToken].npub ELSE ""

\* if (!npub) return; otherwise applePurchase.upsert
upsertApplePurchaseMapping(table, originalTxId, appAccountToken, npub) ==
  IF npub = "" THEN table
  ELSE MapSet(table, originalTxId, [npub |-> npub, appAccountToken |-> appAccountToken])

upsertGooglePurchaseMapping(table, purchaseToken, packageName, subscriptionId, npub) ==
  IF npub = "" THEN table
  ELSE MapSet(table, purchaseToken,
              [npub |-> npub, packageName |-> packageName, subscriptionId |-> subscriptionId])

(* -------------------- subs.ts: inputs and request slots ----------------- *)

Resolves == 1 .. MaxResolves
Hooks == 1 .. MaxHooks

PackageName == "com.mytube.app"

\* A provider notification as the handler sees it.  payload: "missing" (a
\* required field is absent), "invalid" (decoding, authorizing or the status
\* query throws), "noTransaction" (Apple: no signedTransactionInfo) or "ok".
Note(provider, payload, type, purchaseId, productId, expires, appAccountToken, cancelReason, paymentState) ==
  [ provider |-> provider, payload |-> payload, type |-> type, purchaseId |-> purchaseId,
    productId |-> productId, expires |-> expires, appAccountToken |-> appAccountToken,
    cancelReason |-> cancelReason, paymentState |-> paymentState ]

NoNote == Note("", "missing", "", "", << >>, 0, "", "null", "null")

AppleNotes ==
  { Note("apple", p, "", "", << >>, 0, "", "null", "null") : p \in {"missing", "invalid", "noTransaction"} }
  \cup { Note("apple", "ok", type, id[1], productId, expires, id[2], "null", "null") :
           type \in {"SUBSCRIBED", "EXPIRED"},
           id \in {<<"tx1", "aat1">>, <<"tx2", "aat1">>, <<"tx2", "">>},
           productId \in Products, expires \in Dates }

GoogleNotes ==
  { Note("google", p, "", "gp1", BasicYearly, 0, "", "null", "null") : p \in {"missing", "invalid"} }
  \cup { Note("google", "ok", "", "gp1", BasicYearly, expires, "", cancelReason, paymentState) :
           expires \in Dates, cancelReason \in {"null", "0"}, paymentState \in {"null", "0"} }

\* The notifications of the specification of the derived columns: every
\* NotificationType the switch of mapAppleStatus names, one it does not name, a
\* missing one (""), every paymentState, and product ids in several cases.
UltraYearly == << "com.mytube.", "ultra", ".yearly" >>
UltraUpper == << "COM.MYTUBE.", "ULTRA" >>
ProUpper == << "PRO" >>
ProductUltra == << "com.mytube.", "pro", "duct.", "Ultra" >>
PlanProducts == Products \cup {UltraYearly, UltraUpper, ProUpper, ProductUltra}

NotificationTypes ==
  {"DID_RENEW", "SUBSCRIBED", "EXPIRED", "GRACE_PERIOD_EXPIRED", "DID_FAIL_TO_RENEW", "REFUND",
   "REFUND_DECLINED", "REFUND_REVERSED", "PRICE_INCREASE", "RENEWAL_EXTENSION",
   "RENEWAL_EXTENDED", "DID_CHANGE_RENEWAL_STATUS", "DID_CHANGE_RENEWAL_PREF",
   "CONSUMPTION_REQUEST", ""}

PlanAppleNotes ==
  { Note("apple", "ok", type, "tx1", productId, durationMs, "aat1", "null", "null") :
      type \in NotificationTypes, productId \in PlanProducts }
  \cup { Note("apple", "ok", type, "tx2", ProMonthly, durationMs, "aat1", "null", "null") :
           type \in {"GRACE_PERIOD_EXPIRED", ""} }

PlanGoogleNotes ==
  { Note("google", "ok", "", "gp1", productId, expires, "", cancelReason, paymentState) :
      productId \in {BasicYearly, UltraYearly}, expires \in Dates,
      cancelReason \in {"null", "0"}, paymentState \in {"null", "0", "1", "2"} }

\* The notifications of the concurrent specification: one Apple transaction and
\* one Google purchase, of either product, in two states each.
RaceAppleNotes ==
  { Note("apple", "ok", type, "tx1", productId, expires, "aat1", "null", "null") :
      type \in {"SUBSCRIBED", "EXPIRED"}, productId \in Products, expires \in {0, durationMs} }

RaceGoogleNotes ==
  { Note("google", "ok", "", "gp1", BasicYearly, expires, "", "null", paymentState) :
      expires \in {0, durationMs}, paymentState \in {"0", "1"} }

HookSlot(pc, note, npub, outcome) == [pc |-> pc, note |-> note, npub |-> npub, outcome |-> outcome]
IdleHook == HookSlot("idle", NoNote, "", "none")

ResolveSlot(pc, npub, now, existing, outcome, result) ==
  [pc |-> pc, npub |-> npub, now |-> now, existing |-> existing, outcome |-> outcome, result |-> result]
IdleResolve == ResolveSlot("idle", "", 0, NoRow, "none", NoRow)

Routes == 1 .. MaxRoutes

\* req.body.size_bytes: absent or not a number ("missing"), a number that is
\* not an integer ("fraction"), or an integer
Size(kind, n) == [kind |-> kind, n |-> n]
NoSize == Size("missing", 0)
SizeBytes == {NoSize, Size("fraction", 0)} \cup { Size("integer", n) : n \in {-1, 0, 1} }

\* req.body.filename and req.body.key ("": absent or empty)
Filenames == {"", "clip.mp4"}

\* `videos/${req.npub}/${Date.now()}/${filename}`
ObjectKey(npub, now, filename) == [npub |-> npub, at |-> now, filename |-> filename]
NoKey == ObjectKey("", 0, "")

\* the keys a client may ask a download for
ObjectKeys == { ObjectKey(npub, 0, "clip.mp4") : npub \in Npubs }

RouteSlot(pc, route, npub, filename, size, key, status) ==
  [pc |-> pc, route |-> route, npub |-> npub, filename |-> filename, size |-> size,
   key |-> key, status |-> status]
IdleRoute == RouteSlot("idle", "", "", "", NoSize, NoKey, 0)

SubsInit ==
  /\ nowMs = 0
  /\ users = {}
  /\ entitlements = {}
  /\ applePurchases = << >>
  /\ googlePurchases = << >>
  /\ resolves = [ k \in Resolves |-> IdleResolve ]
  /\ hooks = [ h \in Hooks |-> IdleHook ]
  /\ delivered = 0
  /\ calls = 0
  /\ uploads = {}
  /\ usage = << >>
  /\ routes = [ j \in Routes |-> IdleRoute ]

Init ==
  /\ AuthInit
  /\ SubsInit
  /\ freeTrialEnabled = FALSE
  /\ googleAuth = "null"

(* ----------------------- subs.ts: getEntitlementForNpub ---------------- *)

\* lines 26-41: now, the first findFirst, and where the call goes from there
ResolveStart(k) ==
  /\ resolves[k].pc = "idle"
  /\ calls < MaxCalls
  /\ calls' = calls + 1
  /\ \E npub \in Npubs :
       LET active == Latest(ActiveRows(entitlements, npub, nowMs)) IN
       IF active # {}
       THEN \E e \in active :
              resolves' = [resolves EXCEPT ![k] = ResolveSlot("done", npub, nowMs, NoRow, "row", e)]
       ELSE resolves' = [resolves EXCEPT ![k] =
              ResolveSlot(IF freeTrialEnabled THEN "trialFind" ELSE "fallback",
                          npub, nowMs, NoRow, "none", NoRow)]
  /\ UNCHANGED <<authVars, freeTrialEnabled, googleAuth, routeVars, nowMs, dbVars, hooks, delivered>>

\* ensureFreeTrialEntitlement, line 279: the findUnique by the trial id
TrialFind(k) ==
  /\ resolves[k].pc = "trialFind"
  /\ resolves' = [resolves EXCEPT ![k].pc = "trialWrite",
                                  ![k].existing = FindById(entitlements, TrialId(resolves[k].npub))]
  /\ UNCHANGED <<authVars, freeTrialEnabled, googleAuth, routeVars, nowMs, dbVars, hooks, delivered, calls>>

\* ensureFreeTrialEntitlement, lines 283-316, and lines 45-47 of the caller
TrialWrite(k) ==
  /\ resolves[k].pc = "trialWrite"
  /\ LET c == resolves[k]
         done == ensureFreeTrialEntitlement(entitlements, users, c.npub, c.now, c.existing)
     IN /\ entitlements' = done.table
        /\ resolves' = [resolves EXCEPT ![k] =
             IF done.threw THEN ResolveSlot("done", c.npub, c.now, NoRow, "throw", NoRow)
             ELSE IF TrialUsable(done.trial, c.now)
             THEN ResolveSlot("done", c.npub, c.now, NoRow, "row", done.trial)
             ELSE ResolveSlot("fallback", c.npub, c.now, NoRow, "none", NoRow)]
  /\ UNCHANGED <<authVars, freeTrialEnabled, googleAuth, routeVars, nowMs, users, applePurchases,
                 googlePurchases, hooks, delivered, calls>>

\* lines 50-53: the last findFirst
Fallback(k) ==
  /\ resolves[k].pc = "fallback"
  /\ LET c == resolves[k]
         rows == Latest(RowsOf(entitlements, c.npub))
     IN IF rows = {}
        THEN resolves' = [resolves EXCEPT ![k] =
               ResolveSlot("done", c.npub, c.now, NoRow, "nothing", NoRow)]
        ELSE \E e \in rows :
               resolves' = [resolves EXCEPT ![k] =
                 ResolveSlot("done", c.npub, c.now, NoRow, "row", e)]
  /\ UNCHANGED <<authVars, freeTrialEnabled, googleAuth, routeVars, nowMs, dbVars, hooks, delivered, calls>>

\* POST /presign/upload, lines 108-111 and on: the status the route answers
\* with, given how its getEntitlementForNpub call ended (500: the call threw)
presignUploadStatus(outcome, entitlement) ==
  IF outcome = "throw" THEN 500
  ELSE IF outcome = "nothing" \/ entitlement.status \in {"expired", "canceled", "paused"} THEN 402
  ELSE 200

\* GET /entitlement, lines 85-87: plan and status of the response (NoPlan: null)
NoPlan == << >>
entitlementResponse(outcome, entitlement) ==
  IF outcome = "nothing"
  THEN [plan |-> NoPlan, status |-> "none"]
  ELSE [plan |-> entitlement.productId, status |-> entitlement.status]

\* the caller has taken the result
ResolveReturn(k) ==
  /\ resolves[k].pc = "done"
  /\ resolves' = [resolves EXCEPT ![k] = IdleResolve]
  /\ UNCHANGED <<authVars, freeTrialEnabled, googleAuth, routeVars, nowMs, dbVars, hooks, delivered, calls>>

(* ------------------------- subs.ts: the webhooks ----------------------- *)

\* variant: the handler goes on when the lookup found no npub
UnresolvedGoesOn(npub) == FALSE

\* if (!npub): the lookup in the mapping table found nothing
Unresolved(npub) == npub = ""

\* what an ended invocation keeps of its notification: the provider and the
\* purchase identifier it handed to the mapping upsert, or the provider and the
\* kind of payload it threw on, nothing otherwise
Receipt(note, outcome) ==
  IF outcome = "unresolved"
  THEN Note(note.provider, "ok", "", note.purchaseId, << >>, 0, "", "null", "null")
  ELSE IF outcome = "throw"
  THEN Note(note.provider, note.payload, "", "", << >>, 0, "", "null", "null")
  ELSE NoNote

\* a webhook piece that ends the invocation without having resolved an npub
HookEnds(h, note, outcome) ==
  hooks' = [hooks EXCEPT ![h] = HookSlot("done", Receipt(note, outcome), "", outcome)]

\* upsertAppleNotification, lines 57-78: the checks, the decoding, the lookup
\* of the npub and, when there is none, the mapping upsert
AppleReceives(h, notes) ==
  /\ hooks[h].pc = "idle"
  /\ delivered < MaxDeliveries
  /\ delivered' = delivered + 1
  /\ \E note \in notes :
       LET npub == findNpubByOriginalTxIdOrAccountToken(applePurchases, note.purchaseId,
                                                        note.appAccountToken)
       IN
       IF note.payload \in {"missing", "invalid"}
       THEN HookEnds(h, note, "throw") /\ UNCHANGED applePurchases
       ELSE IF note.payload = "noTransaction"
       THEN HookEnds(h, note, "ignored") /\ UNCHANGED applePurchases
       ELSE IF Unresolved(npub)
       THEN /\ applePurchases' = upsertApplePurchaseMapping(applePurchases, note.purchaseId,
                                                            note.appAccountToken, "")
            /\ HookEnds(h, note, "unresolved")
       ELSE /\ hooks' = [hooks EXCEPT ![h] = HookSlot("ensureUser", note, npub, "none")]
            /\ UNCHANGED applePurchases
  /\ UNCHANGED <<authVars, freeTrialEnabled, googleAuth, routeVars, nowMs, users, entitlements,
                 googlePurchases, resolves, calls>>

AppleReceive(h) == AppleReceives(h, AppleNotes)

\* variant: getAuthorizedGoogleClient hands back whatever googleAuth is
CredentialsAssumed(auth) == FALSE

\* getAuthorizedGoogleClient: if (!googleAuth) throw
CredentialsMissing(auth) == auth = "null"

\* upsertGoogleNotification, lines 108-126: the checks, the credentials, the
\* status query, the lookup of the npub and, when there is none, the mapping upsert
GoogleReceives(h, notes) ==
  /\ hooks[h].pc = "idle"
  /\ delivered < MaxDeliveries
  /\ delivered' = delivered + 1
  /\ \E note \in notes :
       LET npub == findNpubByPurchaseToken(googlePurchases, note.purchaseId) IN
       IF note.payload = "missing" \/ CredentialsMissing(googleAuth) \/ note.payload = "invalid"
       THEN HookEnds(h, note, "throw") /\ UNCHANGED googlePurchases
       ELSE IF Unresolved(npub)
       THEN /\ googlePurchases' = upsertGooglePurchaseMapping(googlePurchases, note.purchaseId,
                                                              PackageName, note.productId, "")
            /\ HookEnds(h, note, "unresolved")
       ELSE /\ hooks' = [hooks EXCEPT ![h] = HookSlot("ensureUser", note, npub, "none")]
            /\ UNCHANGED googlePurchases
  /\ UNCHANGED <<authVars, freeTrialEnabled, googleAuth, routeVars, nowMs, users, entitlements,
                 applePurchases, resolves, calls>>

GoogleReceive(h) == GoogleReceives(h, GoogleNotes)

\* ensureUserExists
HookEnsureUser(h) ==
  /\ hooks[h].pc = "ensureUser"
  /\ users' = users \cup {hooks[h].npub}
  /\ hooks' = [hooks EXCEPT ![h].pc = "upsert"]
  /\ UNCHANGED <<authVars, freeTrialEnabled, googleAuth, routeVars, nowMs, entitlements, applePurchases,
                 googlePurchases, resolves, delivered, calls>>

\* the table after the prisma.entitlement.upsert of a notification resolved to npub
NotifiedEntitlements(table, npub, n, now) ==
  IF n.provider = "apple"
  THEN UpsertEntitlement(table, npub, "ios", n.productId, mapAppleStatus(n.type),
                         n.expires, n.purchaseId, "")
  ELSE UpsertEntitlement(table, npub, "android", n.productId,
                         mapGoogleStatus([cancelReason |-> n.cancelReason,
                                          paymentState |-> n.paymentState,
                                          expiryTimeMillis |-> n.expires], now),
                         n.expires, "", n.purchaseId)

\* prisma.entitlement.upsert
HookUpsert(h) ==
  /\ hooks[h].pc = "upsert"
  /\ entitlements' = NotifiedEntitlements(entitlements, hooks[h].npub, hooks[h].note, nowMs)
  /\ hooks' = [hooks EXCEPT ![h].pc = "mapping"]
  /\ UNCHANGED <<authVars, freeTrialEnabled, googleAuth, routeVars, nowMs, users, applePurchases,
                 googlePurchases, resolves, delivered, calls>>

\* upsertApplePurchaseMapping / upsertGooglePurchaseMapping with the npub
HookMapping(h) ==
  /\ hooks[h].pc = "mapping"
  /\ LET c == hooks[h] n == hooks[h].note IN
     IF n.provider = "apple"
     THEN /\ applePurchases' = upsertApplePurchaseMapping(applePurchases, n.purchaseId,
                                                          n.appAccountToken, c.npub)
          /\ UNCHANGED googlePurchases
     ELSE /\ googlePurchases' = upsertGooglePurchaseMapping(googlePurchases, n.purchaseId,
                                                            PackageName, n.productId, c.npub)
          /\ UNCHANGED applePurchases
  /\ hooks' = [hooks EXCEPT ![h] = HookSlot("done", NoNote, hooks[h].npub, "ok")]
  /\ UNCHANGED <<authVars, freeTrialEnabled, googleAuth, routeVars, nowMs, users, entitlements,
                 resolves, delivered, calls>>

\* One of the awaited Prisma calls of lines 80-104 / 128-152 rejects (the store
\* is busy or unreachable): the handler throws out of that await, and what it
\* has written so far stays, the calls not being in a transaction.
HookFails(h) ==
  /\ hooks[h].pc \in {"ensureUser", "upsert", "mapping"}
  /\ hooks' = [hooks EXCEPT ![h] = HookSlot("done", NoNote, "", "rejected")]
  /\ UNCHANGED <<authVars, freeTrialEnabled, googleAuth, routeVars, nowMs, dbVars, resolves, delivered, calls>>

\* the route answers { ok: true } or the error
HookReply(h) ==
  /\ hooks[h].pc = "done"
  /\ hooks' = [hooks EXCEPT ![h] = IdleHook]
  /\ UNCHANGED <<authVars, freeTrialEnabled, googleAuth, routeVars, nowMs, dbVars, resolves, delivered, calls>>

(* --------------------------- the environment --------------------------- *)

\* The client reports a purchase through the deployment's own endpoint
\* (Integration Guide, 4.3 and 7), which stores the mapping row and its user.
LinkApplePurchase ==
  /\ \E npub \in Npubs :
       /\ "tx1" \notin DOMAIN applePurchases
       /\ applePurchases' = MapSet(applePurchases, "tx1", [npub |-> npub, appAccountToken |-> "aat1"])
       /\ users' = users \cup {npub}
  /\ UNCHANGED <<authVars, freeTrialEnabled, googleAuth, routeVars, nowMs, entitlements, googlePurchases,
                 resolves, hooks, delivered, calls>>

LinkGooglePurchase ==
  /\ \E npub \in Npubs :
       /\ "gp1" \notin DOMAIN googlePurchases
       /\ googlePurchases' = MapSet(googlePurchases, "gp1",
            [npub |-> npub, packageName |-> PackageName, subscriptionId |-> BasicYearly])
       /\ users' = users \cup {npub}
  /\ UNCHANGED <<authVars, freeTrialEnabled, googleAuth, routeVars, nowMs, entitlements, applePurchases,
                 resolves, hooks, delivered, calls>>

\* A provider notification that resolves to npub, from ensureUserExists to the
\* entitlement upsert, seen from the resolver (which reads no mapping).
Purchase ==
  /\ delivered < MaxDeliveries
  /\ delivered' = delivered + 1
  /\ \E npub \in Npubs, note \in { n \in AppleNotes \cup GoogleNotes : n.payload = "ok" /\ n.appAccountToken = "" } :
       /\ users' = users \cup {npub}
       /\ entitlements' = NotifiedEntitlements(entitlements, npub, note, nowMs)
  /\ UNCHANGED <<authVars, freeTrialEnabled, googleAuth, routeVars, nowMs, applePurchases, googlePurchases,
                 resolves, hooks, calls>>

\* prisma.user.create and prisma.entitlement.create straight on the tables, as
\* the tests do, with the one status of the data model that no webhook writes:
\* grace.
SeedEntitlement ==
  /\ delivered < MaxDeliveries
  /\ delivered' = delivered + 1
  /\ \E npub \in Npubs, productId \in Products, expires \in Dates :
       LET row == Row("entitlement-1", npub, "ios", productId, "grace", expires, "", "")
       IN /\ npub \notin users
          /\ CanCreate(entitlements, users \cup {npub}, row)
          /\ users' = users \cup {npub}
          /\ entitlements' = entitlements \cup {row}
  /\ UNCHANGED <<authVars, freeTrialEnabled, googleAuth, routeVars, nowMs, applePurchases, googlePurchases,
                 resolves, hooks, calls>>

\* a client signs in (GET /entitlement upserts the user before resolving)
SignIn ==
  /\ \E npub \in Npubs : npub \notin users /\ users' = users \cup {npub}
  /\ UNCHANGED <<authVars, freeTrialEnabled, googleAuth, routeVars, nowMs, entitlements, applePurchases,
                 googlePurchases, resolves, hooks, delivered, calls>>

\* time passes
TickMs ==
  /\ \E t \in Dates : t > nowMs /\ nowMs' = t
  /\ UNCHANGED <<authVars, freeTrialEnabled, googleAuth, routeVars, dbVars, resolves, hooks, delivered, calls>>

(* ----------------- server.ts: the presign route handlers --------------- *)

\* the answer of a handler: its slot ends with the status
RouteEnds(j, status) ==
  routes' = [routes EXCEPT ![j].pc = "done", ![j].status = status]

\* POST /presign/upload, lines 101-108, for a request the hook attached npub
\* to: the body check, then the call of getEntitlementForNpub
UploadStart(j) ==
  /\ routes[j].pc = "idle"
  /\ resolves[j].pc = "idle"
  /\ calls < MaxUploads
  /\ \E npub \in Npubs, filename \in Filenames, size \in SizeBytes :
       routes' = [routes EXCEPT ![j] =
         IF filename = "" \/ size = NoSize
         THEN RouteSlot("done", "upload", npub, filename, size, NoKey, 400)
         ELSE RouteSlot("resolving", "upload", npub, filename, size, NoKey, 0)]
  /\ UNCHANGED <<authVars, freeTrialEnabled, googleAuth, nowMs, dbVars, resolves, hooks,
                 delivered, calls, uploads, usage>>

\* the steps of the getEntitlementForNpub call the handler in slot j awaits
UploadResolves(j) ==
  /\ routes[j].pc = "resolving"
  /\ \/ ResolveStart(j) /\ resolves'[j].npub = routes[j].npub
     \/ TrialFind(j)
     \/ TrialWrite(j)
     \/ Fallback(j)

\* lines 109-114: the entitlement test, the key, s3PresignUpload (which reads
\* and writes nothing of the model)
UploadDecide(j) ==
  /\ routes[j].pc = "resolving"
  /\ resolves[j].pc = "done"
  /\ LET c == routes[j]
         status == presignUploadStatus(resolves[j].outcome, resolves[j].result)
     IN routes' = [routes EXCEPT ![j] =
          IF status = 200
          THEN RouteSlot("create", "upload", c.npub, c.filename, c.size,
                         ObjectKey(c.npub, nowMs, c.filename), 0)
          ELSE RouteSlot("done", "upload", c.npub, c.filename, c.size, NoKey, status)]
  /\ resolves' = [resolves EXCEPT ![j] = IdleResolve]
  /\ UNCHANGED <<authVars, freeTrialEnabled, googleAuth, nowMs, dbVars, hooks, delivered,
                 calls, uploads, usage>>

UploadRow(c) == [npub |-> c.npub, objectKey |-> c.key, sizeBytes |-> c.size.n]

\* prisma.upload.create throws: BigInt(size_bytes) of a number that is not an
\* integer, the foreign key on User, the unique index on objectKey
UploadCreateThrows(table, userTable, c) ==
  \/ c.size.kind = "fraction"
  \/ c.npub \notin userTable
  \/ \E u \in table : u.objectKey = c.key

\* lines 116-124: prisma.upload.create
UploadCreate(j) ==
  /\ routes[j].pc = "create"
  /\ IF UploadCreateThrows(uploads, users, routes[j])
     THEN RouteEnds(j, 500) /\ UNCHANGED uploads
     ELSE /\ uploads' = uploads \cup {UploadRow(routes[j])}
          /\ routes' = [routes EXCEPT ![j].pc = "usage"]
  /\ UNCHANGED <<authVars, freeTrialEnabled, googleAuth, nowMs, dbVars, resolves, hooks,
                 delivered, calls, usage>>

\* prisma.usage.upsert: storedBytes: { increment: BigInt(size_bytes) } on the
\* row of npub, or a new row with storedBytes BigInt(size_bytes)
UsageUpsert(table, npub, size) ==
  IF npub \in DOMAIN table
  THEN [table EXCEPT ![npub] = @ + size]
  ELSE MapSet(table, npub, size)

\* lines 126-138: prisma.usage.upsert and the answer
UploadUsage(j) ==
  /\ routes[j].pc = "usage"
  /\ usage' = UsageUpsert(usage, routes[j].npub, routes[j].size.n)
  /\ RouteEnds(j, 200)
  /\ UNCHANGED <<authVars, freeTrialEnabled, googleAuth, nowMs, dbVars, resolves, hooks,
                 delivered, calls, uploads>>

\* POST /presign/download, lines 146-152, for a request the hook attached npub to
presignDownloadStatus(key) == IF key = NoKey THEN 400 ELSE 200

Download(j) ==
  /\ routes[j].pc = "idle"
  /\ \E npub \in Npubs, key \in ObjectKeys \cup {NoKey} :
       routes' = [routes EXCEPT ![j] =
         RouteSlot("done", "download", npub, "", NoSize, key, presignDownloadStatus(key))]
  /\ UNCHANGED <<authVars, freeTrialEnabled, googleAuth, nowMs, dbVars, resolves, hooks,
                 delivered, calls, uploads, usage>>

\* the route has answered
RouteReply(j) ==
  /\ routes[j].pc = "done"
  /\ routes' = [routes EXCEPT ![j] = IdleRoute]
  /\ UNCHANGED <<authVars, freeTrialEnabled, googleAuth, nowMs, dbVars, resolves, hooks,
                 delivered, calls, uploads, usage>>

(* --------------------------- specifications ---------------------------- *)

\* Requests handled concurrently.
Next ==
  \/ IssueChallenge
  \/ Sweep
  \/ Tick
  \/ \E r \in Slots : Receive(r, RaceHeaders, RaceRequests)
  \/ \E r \in Slots : PreHandler(r)
  \/ \E r \in Slots : ResumeAfterBody(r)
  \/ \E r \in Slots : Reply(r)

Spec == Init /\ [][Next]_vars

\* The store over time: the clock advances and the sweep keeps running (the
\* interval timer fires as long as the process lives).  The instants being
\* bounded, challenges are issued only while the clock can still pass their expiry.
IssueInTime ==
  /\ \E t \in Instants : t > clock + nip98ChallengeTtlSeconds
  /\ IssueChallenge

NextLive ==
  \/ IssueInTime
  \/ Sweep
  \/ Tick
  \/ Receive(1, RaceHeaders, RaceRequests)
  \/ PreHandler(1)
  \/ ResumeAfterBody(1)
  \/ Reply(1)

SpecLive == Init /\ [][NextLive]_vars /\ WF_vars(Tick) /\ WF_vars(Sweep)

\* One request at a time, with every credential and request shape.
NextVerify ==
  \/ IssueChallenge
  \/ Sweep
  \/ Tick
  \/ Receive(1, Headers, Requests)
  \/ PreHandler(1)
  \/ ResumeAfterBody(1)
  \/ Reply(1)

SpecVerify == Init /\ [][NextVerify]_vars


\* The resolver and the trial policy, over the rows webhooks write.
NextResolve ==
  \/ TickMs
  \/ SignIn
  \/ Purchase
  \/ SeedEntitlement
  \/ ResolveStart(1)
  \/ TrialFind(1)
  \/ TrialWrite(1)
  \/ Fallback(1)
  \/ ResolveReturn(1)

InitResolve ==
  /\ AuthInit
  /\ SubsInit
  /\ freeTrialEnabled \in BOOLEAN
  /\ googleAuth = "jwt"

SpecResolve == InitResolve /\ [][NextResolve]_vars

\* Calls of the resolver running concurrently, with the trial policy on, for
\* identities that have signed in.
NextTrialRace ==
  \/ TickMs
  \/ SignIn
  \/ \E k \in Resolves : ResolveStart(k)
  \/ \E k \in Resolves : TrialFind(k)
  \/ \E k \in Resolves : TrialWrite(k)
  \/ \E k \in Resolves : Fallback(k)
  \/ \E k \in Resolves : ResolveReturn(k)

InitTrialRace ==
  /\ AuthInit
  /\ SubsInit
  /\ freeTrialEnabled = TRUE
  /\ googleAuth = "jwt"

SpecTrialRace == InitTrialRace /\ [][NextTrialRace]_vars

\* The presign routes, for requests that carry a verified identity.
NextRoutes ==
  \/ TickMs
  \/ SignIn
  \/ SeedEntitlement
  \/ \E j \in Routes : UploadStart(j)
  \/ \E j \in Routes : UploadResolves(j)
  \/ \E j \in Routes : UploadDecide(j)
  \/ \E j \in Routes : UploadCreate(j)
  \/ \E j \in Routes : UploadUsage(j)
  \/ \E j \in Routes : Download(j)
  \/ \E j \in Routes : RouteReply(j)

SpecRoutes == InitResolve /\ [][NextRoutes]_vars

\* The columns the webhooks derive (status, quota), one notification at a time,
\* for purchases the client has linked.
NextPlans ==
  \/ TickMs
  \/ LinkApplePurchase
  \/ LinkGooglePurchase
  \/ AppleReceives(1, PlanAppleNotes)
  \/ GoogleReceives(1, PlanGoogleNotes)
  \/ HookEnsureUser(1)
  \/ HookUpsert(1)
  \/ HookMapping(1)
  \/ HookReply(1)

InitPlans ==
  /\ AuthInit
  /\ SubsInit
  /\ freeTrialEnabled = FALSE
  /\ googleAuth = "jwt"

SpecPlans == InitPlans /\ [][NextPlans]_vars

\* Two webhook invocations running concurrently.
NextHookRace ==
  \/ LinkApplePurchase
  \/ LinkGooglePurchase
  \/ \E h \in Hooks : AppleReceives(h, RaceAppleNotes)
  \/ \E h \in Hooks : GoogleReceives(h, RaceGoogleNotes)
  \/ \E h \in Hooks : HookEnsureUser(h)
  \/ \E h \in Hooks : HookUpsert(h)
  \/ \E h \in Hooks : HookMapping(h)
  \/ \E h \in Hooks : HookReply(h)

SpecHookRace == InitPlans /\ [][NextHookRace]_vars

\* The webhooks and the purchase mappings.
NextSubs ==
  \/ TickMs
  \/ LinkApplePurchase
  \/ LinkGooglePurchase
  \/ AppleReceive(1)
  \/ GoogleReceive(1)
  \/ HookEnsureUser(1)
  \/ HookUpsert(1)
  \/ HookMapping(1)
  \/ HookFails(1)
  \/ HookReply(1)

InitSubs ==
  /\ AuthInit
  /\ SubsInit
  /\ freeTrialEnabled = FALSE
  /\ googleAuth \in {"null", "jwt"}

SpecSubs == InitSubs /\ [][NextSubs]_vars

(* ======================= the authenticator's claims ==================== *)

\* the challenge a request slot presents (0: none)
Presented(r) == Params(reqs[r].hdr).challenge

\* slot r is, in this step, told what verifyNip98 returned
Returns(r) == reqs[r].pc \in {"received", "awaitBody"} /\ reqs'[r].pc = "handler"

\* the challenge slot r presents is in the store and not past its expiry
PresentsLive(r) ==
  /\ Presented(r) \in DOMAIN challenges
  /\ challenges[Presented(r)].exp >= clock

\* the credentials that bind challenge t to request rq correctly: the method (in
\* any case), the route template or no url, no body hash, signed by the declared key
CorrectHeaders(t, rq) ==
  { h \in Headers : /\ h.json = "object"
                    /\ h.event.content.challenge = t
                    /\ ToUpperCase(h.event.content.method) = rq.method
                    /\ h.event.content.url \in {Undefined, rq.routeUrl}
                    /\ h.event.content.body = ""
                    /\ h.event.signedBy = h.event.pubkey }

\* C1: once a verification presenting token t has succeeded, every verification
\* of a credential presenting t that returns afterwards returns null
\* (verifications one after the other: SpecVerify).
C1_NoReplay ==
  [][ (/\ Returns(1)
       /\ reqs'[1].result # "skipped"
       /\ Presented(1) \in Tokens
       /\ verified[Presented(1)] >= 1)
      => reqs'[1].result = "null" ]_vars

\* a replay of an otherwise correct credential has been refused
C1_Witness ==
  /\ reqs[1].pc = "handler"
  /\ reqs[1].result = "null"
  /\ Presented(1) \in Tokens
  /\ verified[Presented(1)] = 1
  /\ reqs[1].hdr \in CorrectHeaders(Presented(1), reqs[1].req)
  /\ issued[Presented(1)] >= clock

\* C2: whatever the interleaving of concurrent requests, at most one
\* verification succeeds with a given challenge token.
C2_AtMostOneSuccess == \A t \in Tokens : verified[t] <= 1

\* C3: a verification that returns null for a challenge that is in the store
\* and not expired leaves the store as it was, and a correct credential
\* presenting the same token for the same request verifies right afterwards.
C3_FailureKeepsChallenge ==
  [][ (/\ Returns(1)
       /\ reqs'[1].result = "null"
       /\ PresentsLive(1))
      => /\ challenges' = challenges
         /\ \A h \in CorrectHeaders(Presented(1), reqs[1].req) :
              VerifyHead(h, reqs[1].req, challenges', clock').result = npubEncode(h.event.pubkey) ]_vars

\* a verification failed on the body hash, after the await, and the challenge
\* it presented is still in the store
C3_Witness ==
  /\ reqs[1].pc = "handler"
  /\ reqs[1].result = "null"
  /\ PresentsLive(1)
  /\ reqs[1].hdr.json = "object"
  /\ reqs[1].hdr.event.signedBy = reqs[1].hdr.event.pubkey
  /\ reqs[1].hdr.event.content.body # ""
  /\ reqs[1].hdr.event.content.body # Sha256Hex(getRequestBody(reqs[1].req))

\* C4: a verification called with a challenge past its expiry returns null,
\* whatever else the credential declares and whether or not the sweep has
\* removed the entry.
C4_ExpiredFails ==
  [][ (/\ reqs[1].pc = "received"
       /\ reqs'[1].pc # "received"
       /\ ~ SkipsAuth(reqs[1].req)
       /\ Presented(1) \in DOMAIN issued
       /\ issued[Presented(1)] < clock)
      => /\ reqs'[1].pc = "handler"
         /\ reqs'[1].result = "null" ]_vars

\* an otherwise correct credential was refused for its expired challenge, while
\* the store still holds an expired entry that no sweep has removed
C4_Witness ==
  /\ reqs[1].pc = "handler"
  /\ reqs[1].result = "null"
  /\ Presented(1) \in DOMAIN issued
  /\ issued[Presented(1)] < clock
  /\ verified[Presented(1)] = 0
  /\ reqs[1].hdr \in CorrectHeaders(Presented(1), reqs[1].req)
  /\ \E t \in DOMAIN challenges : challenges[t].exp < clock

\* C5: verifyNip98 returns an identity only when the declared method is the
\* request's method up to case, a declared url is the route template (the path
\* of the raw url when no route matched), a declared body hash is the SHA-256
\* of the body bytes, and the event is signed by the key it declares.
C5_BindingsMatch ==
  (reqs[1].pc = "handler" /\ reqs[1].result \in Npubs)
  => LET p == reqs[1].hdr.event.content
         rq == reqs[1].req
     IN /\ reqs[1].hdr.scheme = AUTH_PREFIX /\ reqs[1].hdr.json = "object"
        /\ ToUpperCase(p.method) = rq.method
        /\ p.url = Undefined
           \/ p.url = (IF rq.routeUrl # Undefined THEN rq.routeUrl ELSE extractPath(rq.url))
        /\ p.body = "" \/ p.body = Sha256Hex(getRequestBody(rq))
        /\ reqs[1].hdr.event.signedBy = reqs[1].hdr.event.pubkey

\* a credential declaring method, url and body hash has verified for a POST
\* with a JSON body
C5_Witness ==
  /\ reqs[1].pc = "handler"
  /\ reqs[1].result \in Npubs
  /\ reqs[1].hdr.event.content.url # Undefined
  /\ reqs[1].hdr.event.content.body # ""
  /\ reqs[1].req.body.kind = "json"

\* C6: verifyNip98 never throws, whatever the Authorization header is.
C6_NeverThrows == \A r \in Slots : reqs[r].result # "throw"

\* C7: a credential that presents a live challenge, declares the request's
\* method and route template and no body hash, and is signed by the key it
\* declares, verifies in one step: the result is the npub of that key and the
\* challenge is consumed.  With the correct body hash declared as well, the same
\* holds once the body has been awaited.
ExpectedNpub(key) == IF key = "pkA" THEN "npub1aaa" ELSE "npub1bbb"

C7_FreshChallengeVerifies ==
  [][ /\ (/\ reqs[1].pc = "received"
          /\ reqs'[1].pc # "received"
          /\ ~ SkipsAuth(reqs[1].req)
          /\ PresentsLive(1)
          /\ reqs[1].hdr \in CorrectHeaders(Presented(1), reqs[1].req)
          /\ reqs[1].hdr.event.content.url = reqs[1].req.routeUrl)
         => /\ reqs'[1].pc = "handler"
            /\ reqs'[1].result = ExpectedNpub(reqs[1].hdr.event.signedBy)
            /\ Presented(1) \notin DOMAIN challenges'
      /\ (/\ reqs[1].pc = "awaitBody"
          /\ reqs'[1].pc # "awaitBody"
          /\ reqs[1].hdr.event.content.body = Sha256Hex(getRequestBody(reqs[1].req))
          /\ reqs[1].hdr.event.signedBy = reqs[1].hdr.event.pubkey)
         => /\ reqs'[1].pc = "handler"
            /\ reqs'[1].result = ExpectedNpub(reqs[1].hdr.event.signedBy)
            /\ Presented(1) \notin DOMAIN challenges' ]_vars

\* GET /entitlement signed by pkB with method and url declared has verified
\* with its first and only use of the challenge
C7_Witness ==
  /\ reqs[1].pc = "handler"
  /\ reqs[1].result = "npub1bbb"
  /\ reqs[1].hdr.event.signedBy = "pkB"
  /\ reqs[1].hdr.event.content.url = EntitlementUrl
  /\ reqs[1].hdr.event.content.method = "get"
  /\ reqs[1].hdr.event.content.body = ""
  /\ reqs[1].req.routeUrl = EntitlementUrl
  /\ verified[Presented(1)] = 1

(* ==================== the entitlement resolver's claims ================= *)

\* the rows of npub that are active or in grace and not past their end at now
Qualifying(table, npub, now) ==
  { e \in table : e.npub = npub /\ e.status \in {"active", "grace"} /\ e.expiresAt > now }

\* C8: when the identity has a row with status active or grace and expiresAt
\* after now, getEntitlementForNpub returns such a row, and one whose expiresAt
\* is the greatest among them.
C8_ActiveWins ==
  [][ \A k \in Resolves :
        (/\ resolves[k].pc = "idle"
         /\ resolves'[k].pc # "idle"
         /\ Qualifying(entitlements, resolves'[k].npub, nowMs) # {})
        => /\ resolves'[k].pc = "done"
           /\ resolves'[k].outcome = "row"
           /\ resolves'[k].result \in Qualifying(entitlements, resolves'[k].npub, nowMs)
           /\ \A f \in Qualifying(entitlements, resolves'[k].npub, nowMs) :
                f.expiresAt <= resolves'[k].result.expiresAt ]_vars

\* a row in grace was returned while the identity also had an active row that
\* ends earlier and a row that ends later still but is not active
C8_Witness ==
  \E k \in Resolves :
    /\ resolves[k].pc = "done"
    /\ resolves[k].outcome = "row"
    /\ resolves[k].result.status = "grace"
    /\ resolves[k].result \in entitlements
    /\ \E f \in entitlements :
         /\ f.npub = resolves[k].npub
         /\ f.status = "active"
         /\ f.expiresAt > resolves[k].now
         /\ f.expiresAt < resolves[k].result.expiresAt

\* the resolver returns, in this step, a trial row that is past its end
ReturnsExpiredTrial(k) ==
  /\ resolves[k].pc # "done"
  /\ resolves'[k].pc = "done"
  /\ resolves'[k].outcome = "row"
  /\ resolves'[k].result.productId = TrialProduct
  /\ resolves'[k].result.expiresAt <= resolves'[k].now

\* the rows of npub that come from a provider
ProviderRows(table, npub) == { e \in table : e.npub = npub /\ e.productId # TrialProduct }

\* C9 as stated: getEntitlementForNpub never returns an expired trial for an
\* identity that has a non-trial row, whatever that row's status and expiresAt.
C9_PaidBeatsExpiredTrial ==
  [][ \A k \in Resolves :
        ReturnsExpiredTrial(k) => ProviderRows(entitlements, resolves'[k].npub) = {} ]_vars

\* C9 as the code has it: getEntitlementForNpub never returns an expired trial
\* for an identity that has a non-trial row whose expiresAt is later than the
\* trial's.
C9_LaterPaidBeatsExpiredTrial ==
  [][ \A k \in Resolves :
        ReturnsExpiredTrial(k)
        => \A e \in ProviderRows(entitlements, resolves'[k].npub) :
             e.expiresAt <= resolves'[k].result.expiresAt ]_vars

\* a lapsed provider row was returned for an identity whose trial has expired
\* and ends earlier than that row
C9_Witness ==
  \E k \in Resolves :
    /\ resolves[k].pc = "done"
    /\ resolves[k].outcome = "row"
    /\ resolves[k].result.productId # TrialProduct
    /\ resolves[k].result.status \notin {"active", "grace"}
    /\ \E t \in entitlements :
         /\ t.npub = resolves[k].npub
         /\ t.productId = TrialProduct
         /\ t.status = "expired"
         /\ t.expiresAt <= resolves[k].now
         /\ t.expiresAt < resolves[k].result.expiresAt

(* ========================== the webhooks' claims ======================= *)

\* C10: a webhook whose lookup in the mapping table finds no npub leaves the
\* entitlement table as it is: the step that ends it unresolved writes no
\* entitlement, and every step that writes one is the upsert of a webhook that
\* holds the npub its lookup found.
C10_UnresolvedTouchesNoEntitlement ==
  [][ /\ \A h \in Hooks :
           (hooks[h].pc = "idle" /\ hooks'[h].outcome = "unresolved")
           => entitlements' = entitlements
      /\ entitlements' # entitlements
         => \E h \in Hooks : /\ hooks[h].pc = "upsert"
                             /\ hooks'[h].pc = "mapping"
                             /\ hooks[h].npub \in Npubs ]_vars

\* a webhook ended unresolved while the table held an entitlement written by
\* an earlier, resolved one
C10_Witness ==
  /\ \E h \in Hooks : hooks[h].pc = "done" /\ hooks[h].outcome = "unresolved"
  /\ entitlements # {}


\* the mapping table of a provider
MappingsOf(provider) == IF provider = "apple" THEN applePurchases ELSE googlePurchases

\* C11: after a webhook whose purchase identifier resolved to no npub, the
\* provider's mapping table has a row for that identifier, with the npub unset.
C11_UnresolvedPersistsMapping ==
  \A h \in Hooks :
    (hooks[h].pc = "done" /\ hooks[h].outcome = "unresolved")
    => /\ hooks[h].note.purchaseId \in DOMAIN MappingsOf(hooks[h].note.provider)
       /\ MappingsOf(hooks[h].note.provider)[hooks[h].note.purchaseId].npub = ""


\* the rows of the (npub, productId) pair
RowsOfProduct(table, npub, productId) ==
  { e \in table : e.npub = npub /\ e.productId = productId }

\* C12 as stated: no two entitlement rows carry the same originalTransactionId.
C12_OneRowPerTransaction ==
  \A e, f \in entitlements :
    (e.originalTxId # "" /\ e.originalTxId = f.originalTxId) => e = f

\* C12 as the code has it: the upsert of an Apple notification leaves exactly
\* one row for the notification's (npub, productId) pair, carrying its
\* originalTransactionId, its expiry and the status of its type (SUBSCRIBED:
\* active, EXPIRED: expired), and adds a row only when the pair had none.
C12_OneRowPerProduct ==
  [][ \A h \in Hooks :
        (/\ hooks[h].pc = "upsert"
         /\ hooks'[h].pc = "mapping"
         /\ hooks[h].note.provider = "apple")
        => LET n == hooks[h].note
               before == RowsOfProduct(entitlements, hooks[h].npub, n.productId)
               after == RowsOfProduct(entitlements', hooks[h].npub, n.productId)
           IN /\ Cardinality(after) = 1
              /\ \A e \in after :
                   /\ e.originalTxId = n.purchaseId
                   /\ e.expiresAt = n.expires
                   /\ n.type = "SUBSCRIBED" => e.status = "active"
                   /\ n.type = "EXPIRED" => e.status = "expired"
              /\ Cardinality(entitlements') =
                   Cardinality(entitlements) + (IF before = {} THEN 1 ELSE 0) ]_vars

\* a second notification of transaction tx2, of type EXPIRED, has been applied
\* to the identity's only row
C12_Witness ==
  \E h \in Hooks :
    /\ hooks[h].pc = "mapping"
    /\ hooks[h].note.provider = "apple"
    /\ hooks[h].note.type = "EXPIRED"
    /\ hooks[h].note.purchaseId = "tx2"
    /\ "tx2" \in DOMAIN applePurchases
    /\ Cardinality(RowsOf(entitlements, hooks[h].npub)) = 1
    /\ \A e \in RowsOf(entitlements, hooks[h].npub) :
         e.status = "expired" /\ e.originalTxId = "tx2"


\* the entitlement table holds the row as the notification of invocation c sets it
EntitlementWritten(table, c) ==
  \E e \in RowsOfProduct(table, c.npub, c.note.productId) :
    /\ e.expiresAt = c.note.expires
    /\ c.note.provider = "apple" => e.originalTxId = c.note.purchaseId
    /\ c.note.provider = "google" => e.purchaseToken = c.note.purchaseId

\* the mapping table binds the purchase identifier of invocation c to its npub
MappingWritten(apple, google, c) ==
  IF c.note.provider = "apple"
  THEN /\ c.note.purchaseId \in DOMAIN apple
       /\ apple[c.note.purchaseId].npub = c.npub
  ELSE /\ c.note.purchaseId \in DOMAIN google
       /\ google[c.note.purchaseId].npub = c.npub

\* C13: when a webhook invocation that resolved an npub ends, normally or by
\* an error, its entitlement write is in the store only together with its
\* mapping binding.
C13_AllOrNothing ==
  [][ \A h \in Hooks :
        (hooks[h].pc \in {"ensureUser", "upsert", "mapping"} /\ hooks'[h].pc = "done")
        => (EntitlementWritten(entitlements', hooks[h])
            => MappingWritten(applePurchases', googlePurchases', hooks[h])) ]_vars


\* C14: an invocation whose required fields are missing, or a Google
\* invocation while no service-account credentials are configured, ends in a
\* thrown error, and an invocation that throws on its checks leaves users,
\* entitlements and mappings as they were.
C14_RejectedBeforeMutation ==
  [][ \A h \in Hooks :
        (hooks[h].pc = "idle" /\ hooks'[h].pc # "idle")
        => /\ (\/ hooks'[h].note.provider # "" /\ hooks'[h].note.payload = "missing"
               \/ hooks'[h].note.provider = "google" /\ googleAuth = "null")
              => (hooks'[h].pc = "done" /\ hooks'[h].outcome = "throw")
           /\ hooks'[h].outcome = "throw" => dbVars' = dbVars ]_vars

\* a well-formed Google notification was refused for want of credentials while
\* the store held a mapping and an entitlement
C14_Witness ==
  /\ googleAuth = "null"
  /\ \E h \in Hooks : /\ hooks[h].pc = "done"
                      /\ hooks[h].outcome = "throw"
                      /\ hooks[h].note.provider = "google"
                      /\ hooks[h].note.payload = "ok"
  /\ "gp1" \in DOMAIN googlePurchases
  /\ entitlements # {}


(* ========================= the trial policy's claims =================== *)

\* the trial rows of npub
TrialRows(table, npub) == { e \in table : e.npub = npub /\ e.productId = TrialProduct }

\* the times of a second call: at once, a minute later, and around the trial's end
LaterInstants(now) ==
  { now, now + 1, now + durationMs - 1, now + durationMs, now + durationMs + 1 }

\* C15: from every table the program reaches, two ensureFreeTrialEntitlement
\* calls in succession for one identity return the row with the same id
\* (npub-trial) and the same expiresAt, and leave exactly one trial row and
\* every other row as it was.
C15_TrialIdempotent ==
  \A npub \in Npubs, later \in LaterInstants(nowMs) :
    LET first == ensureTrial(entitlements, users, npub, nowMs)
        second == ensureTrial(first.table, users, npub, later)
    IN ~ first.threw
       => /\ ~ second.threw
          /\ first.trial.id = npub \o "-trial"
          /\ second.trial.id = first.trial.id
          /\ second.trial.expiresAt = first.trial.expiresAt
          /\ Cardinality(TrialRows(second.table, npub)) = 1
          /\ second.table \ TrialRows(second.table, npub)
               = entitlements \ TrialRows(entitlements, npub)

\* a call has returned the identity's trial as an earlier call made it: it ends
\* where that call put its end, not a trial period after this call
C15_Witness ==
  \E k \in Resolves :
    /\ resolves[k].pc = "done"
    /\ resolves[k].outcome = "row"
    /\ resolves[k].result.id = TrialId(resolves[k].npub)
    /\ resolves[k].result.expiresAt # resolves[k].now + durationMs
    /\ Cardinality(TrialRows(entitlements, resolves[k].npub)) = 1


\* C16: the ensureFreeTrialEntitlement call that finds the trial at or past its
\* end leaves it with status expired, and no step of the program takes a trial
\* row out of the status expired or removes it.
C16_TrialExpiryTerminal ==
  [][ /\ \A k \in Resolves :
           (resolves[k].pc = "trialWrite" /\ resolves'[k].pc # "trialWrite")
           => \A t \in TrialRows(entitlements, resolves[k].npub) :
                t.expiresAt <= resolves[k].now
                => \E u \in entitlements' : u.id = t.id /\ u.status = "expired"
      /\ \A t \in entitlements :
           (t.productId = TrialProduct /\ t.status = "expired")
           => t \in entitlements' ]_vars

\* an earlier call has set the trial to expired, and a later call, made after
\* the trial's end, has read it in that status and is about to write
C16_Witness ==
  \E k \in Resolves :
    /\ resolves[k].pc = "trialWrite"
    /\ resolves[k].existing.id = TrialId(resolves[k].npub)
    /\ resolves[k].existing.status = "expired"
    /\ resolves[k].existing \in entitlements
    /\ resolves[k].now > resolves[k].existing.expiresAt


\* C17: with the trial policy on, a getEntitlementForNpub call for an identity
\* that has a User row and no entitlement goes to the trial provisioning, finds
\* no trial, creates the one row npub-trial (product trial, status active,
\* ending freeTrialDays after the call's date, 50 GiB) and returns it.
C17_TrialGranted ==
  [][ \A k \in Resolves :
        /\ (/\ resolves[k].pc = "idle" /\ resolves'[k].pc # "idle"
            /\ freeTrialEnabled
            /\ RowsOf(entitlements, resolves'[k].npub) = {})
           => resolves'[k].pc = "trialFind"
        /\ (/\ resolves[k].pc = "trialFind" /\ resolves'[k].pc # "trialFind"
            /\ RowsOf(entitlements, resolves[k].npub) = {})
           => (resolves'[k].pc = "trialWrite" /\ resolves'[k].existing = NoRow)
        /\ (/\ resolves[k].pc = "trialWrite" /\ resolves'[k].pc # "trialWrite"
            /\ resolves[k].existing = NoRow
            /\ RowsOf(entitlements, resolves[k].npub) = {}
            /\ resolves[k].npub \in users)
           => LET trial == [ id |-> resolves[k].npub \o "-trial",
                             npub |-> resolves[k].npub,
                             platform |-> "trial",
                             productId |-> << "trial" >>,
                             status |-> "active",
                             expiresAt |-> resolves[k].now + freeTrialDays * 24 * 60,
                             quotaBytes |-> 50,
                             originalTxId |-> "",
                             purchaseToken |-> "" ]
              IN /\ entitlements' = entitlements \cup {trial}
                 /\ resolves'[k].pc = "done"
                 /\ resolves'[k].outcome = "row"
                 /\ resolves'[k].result = trial ]_vars

\* the first call for an identity has returned the trial it created, the only
\* row of that identity
C17_Witness ==
  \E k \in Resolves :
    /\ freeTrialEnabled
    /\ resolves[k].pc = "done"
    /\ resolves[k].outcome = "row"
    /\ resolves[k].result.id = TrialId(resolves[k].npub)
    /\ resolves[k].result.status = "active"
    /\ resolves[k].result.expiresAt = resolves[k].now + durationMs
    /\ RowsOf(entitlements, resolves[k].npub) = {resolves[k].result}
    /\ calls = 1


\* C18: getEntitlementForNpub creates a trial row only for an identity that
\* has no provider (non-trial) entitlement row.
C18_TrialOnlyWithoutPurchases ==
  [][ \A k \in Resolves :
        (/\ resolves[k].pc = "trialWrite"
         /\ TrialRows(entitlements, resolves[k].npub) = {}
         /\ TrialRows(entitlements', resolves[k].npub) # {})
        => ProviderRows(entitlements, resolves[k].npub) = {} ]_vars


(* ============================ the routes' claims ======================= *)

\* C19: when the getEntitlementForNpub call of POST /presign/upload ends and
\* the identity then has no row that is active or in grace and ends after the
\* call's date (a trial the call created counts), the route answers 402.
C19_NoEntitlementPaymentRequired ==
  [][ \A k \in Resolves :
        (/\ resolves[k].pc # "done"
         /\ resolves'[k].pc = "done"
         /\ Qualifying(entitlements', resolves'[k].npub, resolves'[k].now) = {})
        => presignUploadStatus(resolves'[k].outcome, resolves'[k].result) = 402 ]_vars

\* the request in slot r is answered in this step
Answered(r) == reqs[r].pc = "handler" /\ reqs'[r].pc = "idle"

\* the hook of the request in slot r runs in this step
Hooked(r) == reqs[r].pc = "received" /\ reqs'[r].pc # "received"

\* C20: a protected route writes to the tables only for a request whose hook
\* attached an identity; a request to a protected route without one is
\* answered 401 and the tables stay as they are; the hook of a request to an
\* /auth or /webhooks path does not call verifyNip98 and leaves the challenge
\* store as it is.
C20_ProtectedRoutesNeedIdentity ==
  [][ \A r \in Slots :
        /\ (Answered(r) /\ reqs[r].req.routeUrl \in ProtectedUrls /\ ~ requireAuth(reqs[r]))
             => (ReplyStatus(reqs[r]) = 401 /\ dbVars' = dbVars)
        /\ (Answered(r) /\ reqs[r].req.routeUrl \in ProtectedUrls /\ dbVars' # dbVars)
             => requireAuth(reqs[r])
        /\ (Hooked(r) /\ SkipsAuth(reqs[r].req))
             => (reqs'[r].result = "skipped" /\ challenges' = challenges) ]_vars

\* C22: when a request whose credential verified is answered, the User table
\* holds a row for the verified identity.
C22_UserAfterAuthentication ==
  [][ \A r \in Slots :
        (Answered(r) /\ requireAuth(reqs[r])) => reqs[r].result \in users' ]_vars

\* the handler in slot j answers in this step
RouteAnswers(j) == routes[j].pc # "done" /\ routes'[j].pc = "done"

\* the object keys of the uploads recorded for npub
KeysOf(table, npub) == { u.objectKey : u \in { v \in table : v.npub = npub } }

\* C21: POST /presign/download answers an identity with a presigned URL for a
\* key only if the Upload table records an upload of that key by that identity.
C21_DownloadOnlyOwnKeys ==
  [][ \A j \in Routes :
        (RouteAnswers(j) /\ routes'[j].route = "download" /\ routes'[j].status = 200)
        => routes'[j].key \in KeysOf(uploads, routes'[j].npub) ]_vars

\* storedBytes of npub (the column's default for an identity without a row)
StoredBytes(table, npub) == IF npub \in DOMAIN table THEN table[npub] ELSE 0

\* C23: no step lowers an identity's storedBytes, and only the usage upsert
\* of POST /presign/upload changes the Usage table.
C23_UsageMonotonic ==
  [][ /\ \A npub \in Npubs : StoredBytes(usage', npub) >= StoredBytes(usage, npub)
      /\ usage' # usage => \E j \in Routes : routes[j].pc = "usage" /\ routes[j].route = "upload" ]_vars

(* ===================== the derived columns' claims ===================== *)

\* the entitlement upsert of the invocation in slot h happens in this step
Upserts(h) == hooks[h].pc = "upsert" /\ hooks'[h].pc = "mapping"

\* the row the invocation in slot h addresses: where: { npub_productId }
RowsAddressed(table, h) == { e \in table : e.npub = hooks[h].npub /\ e.productId = hooks[h].note.productId }

\* C24 as stated: the quota written is 500 GiB for every productId that
\* contains 'ultra', 200 GiB for every one that contains 'pro', 50 GiB for the
\* others, whatever the case of the letters.
C24_QuotaTiers ==
  [][ \A h \in Hooks : Upserts(h) =>
        \A e \in RowsAddressed(entitlements', h) :
          /\ Includes(e.productId, "ultra") => e.quotaBytes = 500
          /\ Includes(e.productId, "pro") => e.quotaBytes = 200
          /\ (~ Includes(e.productId, "ultra") /\ ~ Includes(e.productId, "pro")) => e.quotaBytes = 50 ]_vars

\* C24: the quota written is 200 GiB for every productId that contains 'pro',
\* 500 GiB for every one that contains 'ultra' and not 'pro', 50 GiB for the
\* others, whatever the case of the letters.
C24_QuotaTiersProFirst ==
  [][ \A h \in Hooks : Upserts(h) =>
        /\ RowsAddressed(entitlements', h) # {}
        /\ \A e \in RowsAddressed(entitlements', h) :
             /\ Includes(e.productId, "pro") => e.quotaBytes = 200
             /\ (Includes(e.productId, "ultra") /\ ~ Includes(e.productId, "pro")) => e.quotaBytes = 500
             /\ (~ Includes(e.productId, "ultra") /\ ~ Includes(e.productId, "pro")) => e.quotaBytes = 50 ]_vars

\* an upsert has written the quota of an upper-case 'ULTRA' product
C24_Witness ==
  \E h \in Hooks :
    /\ hooks[h].pc = "mapping"
    /\ hooks[h].note.productId = UltraUpper
    /\ \E e \in RowsAddressed(entitlements, h) : e.quotaBytes = 500

\* the invocation in slot h handles a Google notification
OfGoogle(h) == hooks[h].note.provider = "google"

\* the status the precedence of the spec gives the notification in slot h
PrecedenceStatus(h) ==
  LET n == hooks[h].note IN
  CASE n.cancelReason # "null" -> "canceled"
    [] n.cancelReason = "null" /\ n.paymentState = "0" -> "pending"
    [] n.cancelReason = "null" /\ n.paymentState \in {"1", "2"} -> "active"
    [] n.cancelReason = "null" /\ n.paymentState = "null" /\ n.expires < nowMs -> "expired"
    [] OTHER -> "active"

\* C30 as stated: the Google upsert writes the status of the precedence, and
\* it writes expired whenever the expiry is past and there is neither a cancel
\* reason nor payment state 0.
C30_GoogleStatus ==
  [][ \A h \in Hooks : (Upserts(h) /\ OfGoogle(h)) =>
        \A e \in RowsAddressed(entitlements', h) :
          /\ e.status = PrecedenceStatus(h)
          /\ (/\ hooks[h].note.expires < nowMs
              /\ hooks[h].note.cancelReason = "null"
              /\ hooks[h].note.paymentState # "0") => e.status = "expired" ]_vars

\* C30: the Google upsert writes the status of the precedence; it writes
\* expired whenever the expiry is past and there is neither a cancel reason nor
\* a payment state 0, 1 or 2.
C30_GoogleStatusPrecedence ==
  [][ \A h \in Hooks : (Upserts(h) /\ OfGoogle(h)) =>
        /\ RowsAddressed(entitlements', h) # {}
        /\ \A e \in RowsAddressed(entitlements', h) :
             /\ e.status = PrecedenceStatus(h)
             /\ (/\ hooks[h].note.expires < nowMs
                 /\ hooks[h].note.cancelReason = "null"
                 /\ hooks[h].note.paymentState = "null") => e.status = "expired" ]_vars

\* a subscription without cancel reason and payment state whose expiry is past
\* has been written as expired
C30_Witness ==
  \E h \in Hooks :
    /\ hooks[h].pc = "mapping"
    /\ OfGoogle(h)
    /\ hooks[h].note.expires < nowMs
    /\ hooks[h].note.cancelReason = "null"
    /\ hooks[h].note.paymentState = "null"
    /\ \E e \in RowsAddressed(entitlements, h) : e.status = "expired" /\ e.expiresAt < nowMs

(* ================== the resolver's claims, continued =================== *)

\* the last lookup of the call in slot k answers in this step
FallsBack(k) == resolves[k].pc = "fallback" /\ resolves'[k].pc = "done"

\* C26: a call that finds no row that is active or in grace and ends after now
\* goes, with the trial policy off, to the last lookup, and with the policy on
\* returns a trial only if it is usable; the last lookup returns a row of the
\* identity with the greatest expiresAt, whatever its status, and nothing (status
\* 'none', plan null in the response) exactly when the identity has no row.
C26_FallbackIsLatest ==
  [][ \A k \in Resolves :
        /\ (/\ resolves[k].pc = "idle"
            /\ resolves'[k].pc # "idle"
            /\ Qualifying(entitlements, resolves'[k].npub, nowMs) = {}
            /\ ~ freeTrialEnabled) => resolves'[k].pc = "fallback"
        /\ (/\ resolves[k].pc = "trialWrite"
            /\ resolves'[k].pc = "done"
            /\ resolves'[k].outcome = "row") => TrialUsable(resolves'[k].result, resolves'[k].now)
        /\ FallsBack(k) =>
             LET rows == { e \in entitlements : e.npub = resolves[k].npub }
                 c == resolves'[k]
             IN /\ (rows = {}) <=> (c.outcome = "nothing")
                /\ c.outcome = "nothing" =>
                     entitlementResponse(c.outcome, c.result) = [plan |-> NoPlan, status |-> "none"]
                /\ rows # {} =>
                     /\ c.outcome = "row"
                     /\ c.result \in rows
                     /\ \A f \in rows : f.expiresAt <= c.result.expiresAt
                     /\ entitlementResponse(c.outcome, c.result).status = c.result.status ]_vars

\* the last lookup has returned a lapsed row for an identity that has another
\* row ending earlier
C26_Witness ==
  \E k \in Resolves :
    /\ resolves[k].pc = "done"
    /\ resolves[k].outcome = "row"
    /\ resolves[k].result \in entitlements
    /\ resolves[k].result.status \in {"expired", "canceled"}
    /\ Qualifying(entitlements, resolves[k].npub, resolves[k].now) = {}
    /\ \E f \in entitlements :
         f.npub = resolves[k].npub /\ f.expiresAt < resolves[k].result.expiresAt

(* ================ the authenticator's claims, continued ================ *)

\* the setInterval callback has removed something in this step (it is the only
\* code that changes the store without a request or an issue)
Sweeps == challenges' # challenges /\ reqs' = reqs /\ issued' = issued

\* the challenge t is in the store and verifyNip98 would not evict it
Live(store, t, now) == t \in DOMAIN store /\ store[t].exp >= now

\* C27: a sweep removes exactly the entries whose expiry is past; it changes
\* the result of no verification that is about to read the store; and a delete
\* of a token that is no longer in the store (removed by the sweep, by an
\* eviction or by a consumption) leaves the store as it is.
C27_SweepRacesSafely ==
  [][ /\ Sweeps =>
           /\ \A t \in DOMAIN challenges :
                IF challenges[t].exp < clock
                THEN t \notin DOMAIN challenges'
                ELSE t \in DOMAIN challenges' /\ challenges'[t] = challenges[t]
           /\ DOMAIN challenges' \subseteq DOMAIN challenges
           /\ \A r \in Slots :
                (reqs[r].pc = "received" /\ ~ SkipsAuth(reqs[r].req))
                => VerifyHead(reqs[r].hdr, reqs[r].req, challenges', clock).result
                   = VerifyHead(reqs[r].hdr, reqs[r].req, challenges, clock).result
      /\ \A r \in Slots :
           (Returns(r) /\ Presented(r) \notin DOMAIN challenges) => challenges' = challenges
      /\ \A r \in Slots :
           (Returns(r) /\ Live(challenges, Presented(r), clock) /\ reqs'[r].result = "null")
           => Live(challenges', Presented(r), clock) ]_vars

\* a verification is suspended at its await while the token it presents has
\* expired and has been removed from the store, unverified
C27_Witness ==
  \E r \in Slots :
    /\ reqs[r].pc = "awaitBody"
    /\ Presented(r) \in DOMAIN issued
    /\ Presented(r) \notin DOMAIN challenges
    /\ issued[Presented(r)] < clock
    /\ verified[Presented(r)] = 0
    /\ \A q \in Slots \ {r} : reqs[q].pc = "idle"

(* ============== the trial policy's claims, continued =================== *)

\* the trial provisioning of the call in slot k ends in this step
Provisions(k) == resolves[k].pc = "trialWrite" /\ resolves'[k].pc # "trialWrite"

\* C28: with the trial policy on, the trial provisioning of a call for an
\* identity that has a User row never throws, whatever other calls do in
\* between its lookup and its write; it returns the identity's one trial row.
C28_ConcurrentTrialsSucceed ==
  [][ \A k \in Resolves :
        (Provisions(k) /\ resolves[k].npub \in users)
        => /\ resolves'[k].outcome # "throw"
           /\ Cardinality(TrialRows(entitlements', resolves[k].npub)) = 1 ]_vars

(* ================= the webhooks' claims, continued ===================== *)

\* the columns the upsert of the notification in slot h sets
Carries(e, h) ==
  LET n == hooks[h].note IN
  /\ e.expiresAt = n.expires
  /\ e.quotaBytes = planToQuota(n.productId)
  /\ e.status = IF n.provider = "apple"
                THEN (IF n.type = "EXPIRED" THEN "expired" ELSE "active")
                ELSE (IF n.paymentState = "0" THEN "pending" ELSE "active")

\* C25: the Entitlement table never holds two rows of one (npub, productId); an
\* entitlement upsert, whatever other invocations are in progress, does not
\* throw, leaves the rows of every other (npub, productId) as they were and
\* leaves the one row of its own pair with the status, expiry and quota of its
\* notification; so of two invocations for one pair the row is that of the one
\* whose upsert ran last.
C25_UpsertsPerProduct ==
  [][ /\ \A e, f \in entitlements' :
           (e.npub = f.npub /\ e.productId = f.productId) => e = f
      /\ \A h \in Hooks : Upserts(h) =>
           /\ entitlements' \ RowsAddressed(entitlements', h)
                = entitlements \ RowsAddressed(entitlements, h)
           /\ Cardinality(RowsAddressed(entitlements', h)) = 1
           /\ \A e \in RowsAddressed(entitlements', h) : Carries(e, h)
      /\ \A h \in Hooks : hooks[h].pc = "upsert" => hooks'[h].pc \in {"upsert", "mapping"} ]_vars

\* two invocations for one (npub, productId) with different notifications have
\* both run their upsert; the row is that of one of them
C25_Witness ==
  /\ \A h \in Hooks : hooks[h].pc = "mapping"
  /\ hooks[1].npub = hooks[2].npub
  /\ hooks[1].note.productId = hooks[2].note.productId
  /\ hooks[1].note.provider # hooks[2].note.provider
  /\ Cardinality(RowsAddressed(entitlements, 1)) = 1
  /\ \A e \in RowsAddressed(entitlements, 1) : Carries(e, 2) /\ ~ Carries(e, 1)

\* C29: every challenge in the store is eventually out of it (by its
\* verification, by an eviction at request time, or by the sweep), provided
\* the clock advances and the sweep keeps running.
C29_EventuallyRemoved ==
  \A t \in Tokens : (t \in DOMAIN challenges) ~> (t \notin DOMAIN challenges)

\* a challenge that no verification consumed has expired and left the store
\* while no request was in progress
C29_Witness ==
  \E t \in DOMAIN issued :
    /\ t \notin DOMAIN challenges
    /\ verified[t] = 0
    /\ issued[t] < clock
    /\ \A r \in Slots : reqs[r].pc = "idle"

\* the invocation in slot h handles an Apple notification
OfApple(h) == hooks[h].note.provider = "apple"

\* the status the spec's table gives a notification type
TableStatus(type) ==
  IF type \in {"DID_RENEW", "SUBSCRIBED"} THEN "active"
  ELSE IF type = "EXPIRED" THEN "expired"
  ELSE IF type = "GRACE_PERIOD_EXPIRED" THEN "paused"
  ELSE IF type \in {"REFUND", "REFUND_DECLINED", "REFUND_REVERSED"} THEN "canceled"
  ELSE IF type = "DID_FAIL_TO_RENEW" THEN "canceled"
  ELSE IF type \in {"DID_CHANGE_RENEWAL_STATUS", "DID_CHANGE_RENEWAL_PREF"} THEN "canceled"
  ELSE IF type \in {"PRICE_INCREASE", "RENEWAL_EXTENSION", "RENEWAL_EXTENDED"} THEN "canceled"
  ELSE "active"

\* the identity the mapping table gives a transaction: the row of its
\* originalTransactionId, else the rows with its appAccountToken
MappedNpubs(table, n) ==
  IF n.purchaseId \in DOMAIN table
  THEN { table[n.purchaseId].npub }
  ELSE { table[k].npub : k \in { j \in DOMAIN table : table[j].appAccountToken = n.appAccountToken } }

\* C31: the Apple upsert writes the status the table gives the notification's
\* type, whatever its product, transaction and expiry (a type the table does
\* not name, or none: active); the identity is the one mapped to the
\* originalTransactionId, else to the appAccountToken; and the mapping upsert
\* that ends the invocation binds the originalTransactionId to that identity.
C31_AppleStatusAndMapping ==
  [][ \A h \in Hooks :
        /\ (hooks[h].pc = "idle" /\ hooks'[h].pc = "ensureUser" /\ hooks'[h].note.provider = "apple")
             => hooks'[h].npub \in MappedNpubs(applePurchases, hooks'[h].note)
        /\ (Upserts(h) /\ OfApple(h))
             => /\ RowsAddressed(entitlements', h) # {}
                /\ \A e \in RowsAddressed(entitlements', h) :
                     /\ e.status = TableStatus(hooks[h].note.type)
                     /\ e.originalTxId = hooks[h].note.purchaseId
        /\ (hooks[h].pc = "mapping" /\ hooks'[h].pc = "done" /\ OfApple(h))
             => /\ hooks[h].note.purchaseId \in DOMAIN applePurchases'
                /\ applePurchases'[hooks[h].note.purchaseId].npub = hooks[h].npub
                /\ hooks'[h].outcome = "ok" ]_vars

\* a notification of transaction tx2, resolved through its appAccountToken, has
\* been written as paused and its mapping bound to the identity
C31_Witness ==
  \E h \in Hooks :
    /\ hooks[h].pc = "done"
    /\ hooks[h].outcome = "ok"
    /\ "tx2" \in DOMAIN applePurchases
    /\ applePurchases["tx2"].npub = hooks[h].npub
    /\ \E e \in entitlements :
         e.npub = hooks[h].npub /\ e.originalTxId = "tx2" /\ e.status = "paused"

====
